---- MODULE Spec2Model ----
(***************************************************************************)
(* A model of the Gas Town agent runtime (internal/runtime): the           *)
(* process-backed SDKRuntime with its admission semaphore, session table,  *)
(* per-session run loops, tool rounds and subprocess handling, the         *)
(* terminal-backed TmuxRuntime's Start, the session-id convention they     *)
(* share, and the API server (internal/api) that broadcasts a session's    *)
(* responses to its WebSocket connections.                                 *)
(*                                                                         *)
(* Strings whose structure matters (roles, rig and worker names, session   *)
(* ids) are sequences of one-character strings, so that concatenation is   *)
(* concatenation and two ids are equal exactly when their characters are.  *)
(***************************************************************************)
EXTENDS Integers, Sequences, FiniteSets, TLC

\* ------------------------------------------------------------------ bounds
\* largest cfg.MaxConcurrentSessions a runtime is constructed with
MaxCeiling == 2
\* number of calls that get past their first step in one behaviour (a call
\* that returns at its first step, changing nothing, is not counted)
MaxCalls == 3
\* number of calls of the model for one prompt after which the model stops
\* replying with a tool call
MaxModelCalls == 2
\* number of WebSocket connections made to the session in one behaviour
MaxConns == 3
\* number of prompts the WebSocket clients send to the session
MaxPrompts == 1
\* longest pane content given to extractNewContent
MaxContent == 3

\* ------------------------------------------------------- program constants
\* NewSDKRuntime: the ceiling used when cfg.MaxConcurrentSessions <= 0
DefaultMaxConcurrent == 10
\* Start: make(chan string, 10)
PromptQueueDepth == 10
\* Start: make(chan Response, 100)
ResponseQueueDepth == 100
\* handleCaptureOutput: the number of lines the gateway asks for
CaptureLines == 50
\* the tokens one reply of the model adds to a session's counter
ReplyUsage == 2

\* -------------------------------------------------------------- identities
RolePolecat == <<"p","o","l","e","c","a","t">>
RoleWitness == <<"w","i","t","n","e","s","s">>
RoleRefinery == <<"r","e","f","i","n","e","r","y">>
RoleMayor == <<"m","a","y","o","r">>
RoleDeacon == <<"d","e","a","c","o","n">>
RoleCrew == <<"c","r","e","w">>
\* the zero value of AgentRole: a StartOptions whose Role was never set
NoRole == << >>

\* an id convention that names the crew as it names the polecats
GenerateSessionIDCrewAsPolecat(opts) ==
    CASE opts.Role = RoleMayor -> <<"h","q","-">> \o RoleMayor
      [] opts.Role = RoleDeacon -> <<"h","q","-">> \o RoleDeacon
      [] opts.Role = RoleWitness -> <<"g","t","-">> \o opts.RigName \o <<"-">> \o RoleWitness
      [] opts.Role = RoleRefinery -> <<"g","t","-">> \o opts.RigName \o <<"-">> \o RoleRefinery
      [] OTHER -> <<"g","t","-">> \o opts.RigName \o <<"-">> \o opts.WorkerName

\* GenerateSessionID(opts): the id is a function of Role, RigName, WorkerName
GenerateSessionID(opts) ==
    CASE opts.Role = RoleMayor -> <<"h","q","-">> \o RoleMayor
      [] opts.Role = RoleDeacon -> <<"h","q","-">> \o RoleDeacon
      [] opts.Role = RoleWitness -> <<"g","t","-">> \o opts.RigName \o <<"-">> \o RoleWitness
      [] opts.Role = RoleRefinery -> <<"g","t","-">> \o opts.RigName \o <<"-">> \o RoleRefinery
      [] opts.Role = RoleCrew ->
            <<"g","t","-">> \o opts.RigName \o <<"-">> \o RoleCrew \o <<"-">> \o opts.WorkerName
      [] opts.Role = RolePolecat -> <<"g","t","-">> \o opts.RigName \o <<"-">> \o opts.WorkerName
      [] OTHER -> <<"g","t","-">> \o opts.RigName \o <<"-">> \o opts.WorkerName

\* The StartOptions the callers draw from: a polecat, and options whose Role
\* is left empty ...
StartOptionsSet ==
    { [Role |-> RolePolecat, RigName |-> <<"a">>, WorkerName |-> <<"x">>, InitialPrompt |-> ""],
      [Role |-> NoRole, RigName |-> <<"a">>, WorkerName |-> <<"y">>, InitialPrompt |-> ""] }

\* ... and, where the callers give initial prompts, the polecat with one
PromptedOptionsSet ==
    StartOptionsSet \cup
    { [Role |-> RolePolecat, RigName |-> <<"a">>, WorkerName |-> <<"x">>, InitialPrompt |-> "init"] }

NoOpts == [Role |-> NoRole, RigName |-> << >>, WorkerName |-> << >>, InitialPrompt |-> ""]

\* an id no Start of the model computes ("nonexistent" in the tests)
Nonexistent == <<"n","o","n","e">>
NoID == << >>

SessionIDs == { GenerateSessionID(o) : o \in StartOptionsSet } \cup {Nonexistent}

\* the roles the runtime defines
DefinedRoles == {RolePolecat, RoleWitness, RoleRefinery, RoleMayor, RoleDeacon, RoleCrew}

\* The StartOptions GenerateSessionID is applied to on its own: every role
\* and the empty one, two rigs, and workers named as people name them, after
\* a role included; the fields the function does not read vary as well.
IdentityOptionsSet ==
    [Role : DefinedRoles \cup {NoRole},
     RigName : {<<"a">>, <<"b">>},
     WorkerName : {<<"x">>, RoleWitness, RoleCrew \o <<"-","x">>},
     InitialPrompt : {"", "init"}]

\* no options chosen, no id generated
NoGen == [a |-> NoOpts, b |-> NoOpts, ida |-> NoID, idb |-> NoID]

\* ------------------------------------------------------------------- state
Callers == {1, 2}
\* session objects (*sdkSession), in order of allocation; 0 is "no session"
Inst == 1..MaxCalls
NoInst == 0

VARIABLES
    cfgMax,      \* cfg.MaxConcurrentSessions
    useCLI,      \* r.useCLI: subprocess mode (no API key in the configuration)
    semaphore,   \* number of tokens in the channel r.semaphore
    sessions,    \* r.sessions: session id -> session object (NoInst: absent)
    sess,        \* the session objects: fields of sdkSession
    task,        \* the goroutine running run() / runCLI() of each session
    proc,        \* the claude subprocess of each session (subprocess mode)
    reader,      \* the goroutine running readCLIOutput() of each session
    fwd,         \* the forwarding goroutines StreamResponses has started
    call,        \* what each caller is executing
    nextInst,    \* next session object to allocate
    nCalls,      \* calls so far that got past their first step
    released,    \* per session object: slot releases made on its behalf
    gen,         \* two StartOptions and the ids GenerateSessionID has given them
    wsConns,     \* Server.wsConns[id]: the slice of connections of the session
    conn,        \* the WebSocket connections and what each has been sent
    stream,      \* the goroutine running Server.streamToWebSockets(id)
    tools,       \* r.tools: tool name -> ToolConfig (NoTool: absent)
    exec,        \* the last call of executeTool: its argument, what it found, its result
    registry,    \* a Registry: its runtimes map and its active name
    lookup,      \* the last call on the registry: its argument and what it returned
    diff,        \* a call of extractNewContent: its arguments and its result
    ctor,        \* two calls of NewSDKRuntime: the configuration, each environment, each result
    resp,        \* per caller: the last HTTP request the server answered it, and the answer
    tmux,        \* the tmux server's sessions, and TmuxRuntime.sessions
    answer       \* the last answer of the TmuxRuntime, as the server gives it

\* the state of the API server
gateway == <<wsConns, conn, stream>>

\* the state of the parts that are exercised on their own
units == <<tools, exec, registry, lookup, diff, ctor, resp, tmux, answer>>

vars == <<units, gen, wsConns, conn, stream, cfgMax, useCLI, semaphore, sessions, sess, task, proc, reader, fwd, call,
          nextInst, nCalls, released>>

\* cap(r.semaphore), as NewSDKRuntime sizes it
Ceiling == IF cfgMax <= 0 THEN DefaultMaxConcurrent ELSE cfgMax

\* a session object that has not been allocated
NoSession ==
    [alloc |-> FALSE, SessionID |-> NoID, Role |-> NoRole, RigName |-> << >>,
     WorkerName |-> << >>, Running |-> FALSE, ctxDone |-> FALSE,
     promptCh |-> << >>, promptClosed |-> FALSE,
     responseCh |-> << >>, responseClosed |-> FALSE,
     cmd |-> "nil", stdin |-> "nil", conversation |-> << >>,
     tokenCount |-> 0, turnCount |-> 0]

\* the sdkSession Start builds
NewSession(opts) ==
    [NoSession EXCEPT !.alloc = TRUE, !.SessionID = GenerateSessionID(opts),
                      !.Role = opts.Role, !.RigName = opts.RigName,
                      !.WorkerName = opts.WorkerName, !.Running = TRUE]

\* a session goroutine that does not exist yet; pc is its position in run or
\* runCLI once Start has launched it, calls the number of calls of the model
\* it has made for the prompt it is handling, asked the number of tool_use
\* blocks the model has sent for that prompt (each names a registered tool),
\* invoked the number of times executeTool has run the tool's handler for it
NoTask == [pc |-> "none", calls |-> 0, asked |-> 0, invoked |-> 0]
\* a subprocess that does not exist; stdinLines: prompt lines written to it and
\* not yet answered, stdout: lines it has written and the reader has not read
NoProc == [state |-> "none", stdinLines |-> 0, stdout |-> << >>]

\* a caller that is between calls
Idle ==
    [op |-> "", pc |-> "idle", opts |-> NoOpts, id |-> NoID, force |-> FALSE,
     ctxDone |-> FALSE, prompt |-> "", inst |-> NoInst, made |-> NoInst,
     found |-> FALSE, res |-> "", ret |-> << >>, visited |-> {}]

\* the WebSocket connections, in the order in which they are made; 0 is nil
Conns == 1..MaxConns
\* A connection not yet made. since: the number of messages the server had
\* begun to broadcast when the connection was registered; got: the messages,
\* by their number in the session's stream, written to it successfully.
NoConn == [state |-> "none", slow |-> FALSE, since |-> 0, got |-> << >>]
\* wsConns[id] of a session nobody has connected to: a nil slice. arr is the
\* backing array of the slice (its length is the capacity), len its length.
NoConns == [arr |-> << >>, len |-> 0]
\* The streaming goroutine before it is started. k: its stream of the
\* runtime; pos: the number of responses it has received; view: the slice
\* broadcastToSession ranges over, shared: whether that slice still has the
\* backing array of wsConns[id]; idx, target: the position in the slice and the
\* connection read from it.
NoStream == [pc |-> "none", k |-> 0, pos |-> 0, view |-> << >>, shared |-> FALSE,
             idx |-> 0, target |-> 0]

\* ------------------------------------------------- parts on their own
\* no tool registered under a name; no call of executeTool made yet
ToolNames == {"echo", "tool1"}
\* the nil of an output of type any
NoOutput == "<nil>"
NilHandler == [nil |-> TRUE, output |-> NoOutput, err |-> << >>]
NoTool == [registered |-> FALSE, Handler |-> NilHandler]
NoExec == [made |-> FALSE, call |-> [ID |-> "", Name |-> ""], tool |-> NoTool,
           result |-> [CallID |-> "", Output |-> NoOutput, Error |-> << >>]]

\* RuntimeTmux, RuntimeSDK and a name of the tests
RuntimeNames == {"tmux", "sdk", "test"}
\* no AgentRuntime under a name
NoRuntime == "nil"
\* NewRegistry(): no runtime registered, the active name RuntimeTmux
NewRegistry == [runtimes |-> [n \in RuntimeNames |-> NoRuntime], active |-> "tmux"]

\* no SDKRuntime constructed; a nil *config.SDKRuntimeConfig
NoSDKRuntime == [made |-> FALSE, useCLI |-> FALSE, ceiling |-> 0]
NilConfig == [nil |-> TRUE, APIKey |-> "", MaxConcurrentSessions |-> 0]

\* the StartOptions of the sessions in tmux: one of each shape of id
TmuxOptionsSet ==
    { [Role |-> RolePolecat, RigName |-> <<"a">>, WorkerName |-> <<"x">>, InitialPrompt |-> ""],
      [Role |-> RoleCrew, RigName |-> <<"a">>, WorkerName |-> <<"x">>, InitialPrompt |-> ""],
      [Role |-> RoleWitness, RigName |-> <<"a">>, WorkerName |-> << >>, InitialPrompt |-> ""],
      [Role |-> RoleMayor, RigName |-> << >>, WorkerName |-> << >>, InitialPrompt |-> ""] }

\* no entry of TmuxRuntime.sessions; nothing answered
NoTmuxSession == [stored |-> FALSE, SessionID |-> NoID, Role |-> NoRole, RigName |-> << >>,
                  WorkerName |-> << >>, Running |-> FALSE]
NoAnswer == [op |-> "", id |-> NoID, status |-> 0, running |-> FALSE, err |-> FALSE,
             filter |-> [RigName |-> << >>, Role |-> NoRole], sessions |-> {}]

\* every part but u in the state in which nothing has been done with it
UnitsAtRest(u) ==
    /\ IF u = "tools" THEN TRUE
       ELSE /\ tools = [n \in ToolNames |-> NoTool]
            /\ exec = NoExec
    /\ IF u = "registry" THEN TRUE
       ELSE /\ registry = NewRegistry
            /\ lookup = [op |-> "", name |-> "", rt |-> NoRuntime, err |-> FALSE]
    /\ IF u = "diff" THEN TRUE
       ELSE diff = [old |-> << >>, new |-> << >>, out |-> << >>, done |-> FALSE]
    /\ IF u = "ctor" THEN TRUE
       ELSE ctor = [cfg |-> NilConfig, env |-> <<"", "">>,
                    rt |-> <<NoSDKRuntime, NoSDKRuntime>>]
    /\ IF u = "resp" THEN TRUE
       ELSE resp = [t \in Callers |->
                      [route |-> "", res |-> "", status |-> 0, sends |-> 0, body |-> << >>]]
    /\ IF u = "tmux" THEN TRUE
       ELSE /\ tmux = [live |-> {}, tracked |-> << >>]
            /\ answer = NoAnswer

\* ------------------------------------------------------------ construction
\* NewSDKRuntime(cfg): the mode follows from cfg.APIKey alone, the semaphore
\* is empty and no session exists.
Init ==
    /\ gen = NoGen
    /\ UnitsAtRest("")
    /\ wsConns = NoConns
    /\ conn = [c \in Conns |-> NoConn]
    /\ stream = NoStream
    /\ cfgMax \in 1..MaxCeiling
    /\ useCLI \in BOOLEAN
    /\ semaphore = 0
    /\ sessions = [id \in SessionIDs |-> NoInst]
    /\ sess = [i \in Inst |-> NoSession]
    /\ task = [i \in Inst |-> NoTask]
    /\ proc = [i \in Inst |-> NoProc]
    /\ reader = [i \in Inst |-> NoTask]
    /\ fwd = << >>
    /\ call = [t \in Callers |-> Idle]
    /\ nextInst = 1
    /\ nCalls = 0
    /\ released = [i \in Inst |-> 0]

\* ----------------------------------------------------------- caller steps
\* what a call leaves when it returns: its arguments, its result res and the
\* value ret it returns
Result(c, res, ret) ==
    [Idle EXCEPT !.op = c.op, !.pc = "done", !.opts = c.opts, !.id = c.id,
                 !.force = c.force, !.ctxDone = c.ctxDone, !.prompt = c.prompt,
                 !.found = c.found, !.res = res, !.ret = ret]

\* the caller's call returns
Finish(t, res, ret) == call' = [call EXCEPT ![t] = Result(call[t], res, ret)]

\* the caller's goroutine panics
Panic(t) == Finish(t, "panic", << >>)

\* the caller has its result and is free for the next call
Return(t) ==
    /\ call[t].pc = "done"
    /\ call' = [call EXCEPT ![t] = Idle]
    /\ UNCHANGED <<gen, gateway, units, cfgMax, useCLI, semaphore, sessions, sess, task, proc, reader, fwd,
                   nextInst, nCalls, released>>

\* No caller is holding a result it has yet to take. A caller takes the result
\* of its call before anything else happens: every other step waits for it.
NoneDone == \A t \in Callers : call[t].pc # "done"

\* A caller begins a call and takes its first step, after which it executes
\* rec. Callers are interchangeable, so a call takes the lowest one that is
\* not in the middle of a call. A
\* call that has had an effect, or is to take further steps, is counted.
Begin(t, rec, effect) ==
    /\ NoneDone
    /\ call[t].pc = "idle"
    /\ \A u \in Callers : u < t => call[u].pc \notin {"idle", "done"}
    /\ IF rec.pc = "done" /\ ~effect THEN UNCHANGED nCalls
       ELSE nCalls < MaxCalls /\ nCalls' = nCalls + 1
    /\ call' = [call EXCEPT ![t] = rec]

\* --------------------------------------------------------- SDKRuntime.Start
\* the select of SendPrompt on session object i: the cases that are ready.
\* A send on a closed channel is ready and panics; a send on a full one is not.
SendOutcomes(ctxDone, i) ==
    (IF sess[i].promptClosed THEN {"panic"}
     ELSE IF Len(sess[i].promptCh) < PromptQueueDepth THEN {"sent"} ELSE {})
    \cup (IF ctxDone THEN {"errCtx"} ELSE {})
    \cup (IF sess[i].ctxDone THEN {"errSessionClosed"} ELSE {})

\* the session objects after the outcome o of sending prompt p to session i
AfterSend(i, o, p) ==
    IF o = "sent" THEN [sess EXCEPT ![i].promptCh = Append(@, p)] ELSE sess

\* an acquire that never finds the semaphore full
AcquireUnbounded(ctxDone) ==
    {"acquired"} \cup (IF ctxDone THEN {"errCtx"} ELSE {})

\* The non-blocking acquire of Start, called with context state ctxDone: a
\* slot if one is free, the context's error if the context is done, and the
\* capacity error (the default case) only when neither is ready.
AcquireOutcomes(ctxDone) ==
    (IF semaphore < Ceiling THEN {"acquired"} ELSE {})
    \cup (IF ctxDone THEN {"errCtx"} ELSE {})
    \cup (IF semaphore >= Ceiling /\ ~ctxDone THEN {"errCapacity"} ELSE {})

\* Start(ctx, opts), first step: the acquire
StartAcquire(t, opts, c) ==
    /\ \E o \in AcquireOutcomes(c) :
          LET rec == [Idle EXCEPT !.op = "Start", !.pc = "start_check",
                                  !.opts = opts, !.ctxDone = c]
          IN /\ Begin(t, IF o = "acquired" THEN rec ELSE Result(rec, o, << >>), FALSE)
             /\ semaphore' = IF o = "acquired" THEN semaphore + 1 ELSE semaphore
    /\ UNCHANGED <<gen, gateway, units, cfgMax, useCLI, sessions, sess, task, proc, reader, fwd,
                   nextInst, released>>

\* the acquire of the Start that Restart calls once its Stop has returned
RestartAcquire(t) ==
    /\ NoneDone
    /\ call[t].pc = "start_acquire"
    /\ \E o \in AcquireOutcomes(call[t].ctxDone) :
          /\ IF o = "acquired"
             THEN call' = [call EXCEPT ![t].pc = "start_check"]
             ELSE Finish(t, o, << >>)
          /\ semaphore' = IF o = "acquired" THEN semaphore + 1 ELSE semaphore
    /\ UNCHANGED <<gen, gateway, units, cfgMax, useCLI, sessions, sess, task, proc, reader, fwd,
                   nextInst, nCalls, released>>

\* sessionID := GenerateSessionID(opts); r.sessions.Load(sessionID)
StartCheck(t) ==
    /\ NoneDone
    /\ call[t].pc = "start_check"
    /\ call' = [call EXCEPT ![t].pc =
                   IF sessions[GenerateSessionID(call[t].opts)] # NoInst
                   THEN "start_dup" ELSE "start_store"]
    /\ UNCHANGED <<gen, gateway, units, cfgMax, useCLI, semaphore, sessions, sess, task, proc, reader, fwd,
                   nextInst, nCalls, released>>

\* a Start that finds the id taken and returns the error with the slot
StartDupKeepsSlot(t) ==
    /\ NoneDone
    /\ call[t].pc = "start_dup"
    /\ Finish(t, "errExists", << >>)
    /\ UNCHANGED <<gen, gateway, units, cfgMax, useCLI, semaphore, sessions, sess, task, proc, reader, fwd,
                   nextInst, nCalls, released>>

\* the id is taken: <-r.semaphore, then the error
StartDupRelease(t) ==
    /\ NoneDone
    /\ call[t].pc = "start_dup"
    /\ semaphore > 0
    /\ semaphore' = semaphore - 1
    /\ Finish(t, "errExists", << >>)
    /\ UNCHANGED <<gen, gateway, units, cfgMax, useCLI, sessions, sess, task, proc, reader, fwd,
                   nextInst, nCalls, released>>

\* r.sessions.Store(sessionID, session); go session.runCLI() / go session.run()
StartStore(t) ==
    /\ NoneDone
    /\ call[t].pc = "start_store"
    /\ LET i == nextInst
           opts == call[t].opts
       IN /\ sess' = [sess EXCEPT ![i] = NewSession(opts)]
          /\ sessions' = [sessions EXCEPT ![GenerateSessionID(opts)] = i]
          /\ task' = [task EXCEPT ![i].pc = IF useCLI THEN "cli_start" ELSE "loop"]
          /\ nextInst' = nextInst + 1
          /\ IF opts.InitialPrompt # ""
             THEN call' = [call EXCEPT ![t].pc = "start_prompt", ![t].made = i]
             ELSE Finish(t, "ok", <<i>>)
    /\ UNCHANGED <<gen, gateway, units, cfgMax, useCLI, semaphore, proc, reader, fwd, nCalls, released>>

\* r.SendPrompt(ctx, sessionID, opts.InitialPrompt): its Load and its select;
\* an error of SendPrompt is ignored by Start
StartPrompt(t) ==
    /\ NoneDone
    /\ call[t].pc = "start_prompt"
    /\ LET i == sessions[GenerateSessionID(call[t].opts)]
       IN IF i = NoInst
          THEN Finish(t, "ok", <<call[t].made>>) /\ UNCHANGED sess
          ELSE \E o \in SendOutcomes(call[t].ctxDone, i) :
                  /\ sess' = AfterSend(i, o, call[t].opts.InitialPrompt)
                  /\ IF o = "panic" THEN Panic(t) ELSE Finish(t, "ok", <<call[t].made>>)
    /\ UNCHANGED <<gen, gateway, units, cfgMax, useCLI, semaphore, sessions, task, proc, reader, fwd,
                   nextInst, nCalls, released>>

\* Start, called with options of the set O, up to its initial prompt
Start(t, O) ==
    \/ \E opts \in O, c \in BOOLEAN : StartAcquire(t, opts, c)
    \/ StartCheck(t)
    \/ StartDupRelease(t)
    \/ StartStore(t)

\* ---------------------------------------------------------- SDKRuntime.Stop
\* Stop has returned nil: Restart goes on to Start, Close to the next key
AfterStop(c, found) ==
    IF c.op = "Restart"
    THEN [c EXCEPT !.pc = "start_acquire", !.inst = NoInst, !.found = found]
    ELSE IF c.op = "Close"
    THEN [c EXCEPT !.pc = "close_range", !.inst = NoInst, !.found = FALSE]
    ELSE Result([c EXCEPT !.found = found], "ok", << >>)

\* stored, ok := r.sessions.Load(sessionID); if !ok { return nil }
AfterLoad(c) ==
    IF sessions[c.id] = NoInst
    THEN AfterStop(c, FALSE)
    ELSE [c EXCEPT !.pc = "stop_signal", !.inst = sessions[c.id], !.found = TRUE]

\* a Stop that gives a slot back even when it finds no session
StopLoadReleases(t, id, force) ==
    /\ Begin(t, AfterLoad([Idle EXCEPT !.op = "Stop", !.id = id, !.force = force]), FALSE)
    /\ semaphore' = IF sessions[id] = NoInst /\ semaphore > 0
                    THEN semaphore - 1 ELSE semaphore
    /\ UNCHANGED <<gen, gateway, units, cfgMax, useCLI, sessions, sess, task, proc, reader, fwd,
                   nextInst, released>>

\* Stop(ctx, sessionID, force), first step: the Load
StopLoad(t, id, force) ==
    /\ Begin(t, AfterLoad([Idle EXCEPT !.op = "Stop", !.id = id, !.force = force]), FALSE)
    /\ UNCHANGED <<gen, gateway, units, cfgMax, useCLI, semaphore, sessions, sess, task, proc, reader, fwd,
                   nextInst, released>>

\* the Load of a Stop that Close calls
CloseStopLoad(t) ==
    /\ NoneDone
    /\ call[t].pc = "stop_load"
    /\ call' = [call EXCEPT ![t] = AfterLoad(call[t])]
    /\ UNCHANGED <<gen, gateway, units, cfgMax, useCLI, semaphore, sessions, sess, task, proc, reader, fwd,
                   nextInst, nCalls, released>>

\* a Stop whose close of the prompt queue tolerates a queue already closed
StopSignalTwice(t) ==
    /\ NoneDone
    /\ call[t].pc = "stop_signal"
    /\ sess' = [sess EXCEPT ![call[t].inst].stdin = IF @ = "nil" THEN "nil" ELSE "closed",
                            ![call[t].inst].ctxDone = TRUE,
                            ![call[t].inst].promptClosed = TRUE]
    /\ call' = [call EXCEPT ![t].pc = "stop_kill"]
    /\ UNCHANGED <<gen, gateway, units, cfgMax, useCLI, semaphore, sessions, task, proc, reader, fwd,
                   nextInst, nCalls, released>>

\* if session.stdin != nil { session.stdin.Close() }; session.cancel();
\* close(session.promptCh): closing a closed channel panics
StopSignal(t) ==
    /\ NoneDone
    /\ call[t].pc = "stop_signal"
    /\ LET i == call[t].inst
       IN /\ sess' = [sess EXCEPT ![i].stdin = IF @ = "nil" THEN "nil" ELSE "closed",
                                  ![i].ctxDone = TRUE,
                                  ![i].promptClosed = TRUE]
          /\ IF sess[i].promptClosed
             THEN Panic(t)
             ELSE call' = [call EXCEPT ![t].pc = "stop_kill"]
    /\ UNCHANGED <<gen, gateway, units, cfgMax, useCLI, semaphore, sessions, task, proc, reader, fwd,
                   nextInst, nCalls, released>>

\* if session.cmd != nil { if force { session.cmd.Process.Kill() } ... }:
\* cmd.Process is nil until cmd.Start has succeeded, and Kill on it panics
StopKill(t) ==
    /\ NoneDone
    /\ call[t].pc = "stop_kill"
    /\ LET c == sess[call[t].inst].cmd
       IN IF c = "nil"
          THEN call' = [call EXCEPT ![t].pc = "stop_delete"]
          ELSE IF call[t].force /\ c # "started"
          THEN Panic(t)
          ELSE call' = [call EXCEPT ![t].pc = "stop_wait"]
    /\ UNCHANGED <<gen, gateway, units, cfgMax, useCLI, semaphore, sessions, sess, task, proc, reader, fwd,
                   nextInst, nCalls, released>>

\* session.cmd.Wait(): returns at once (with an error) for a command that was
\* not started, and otherwise when the subprocess has exited
StopWait(t) ==
    /\ NoneDone
    /\ call[t].pc = "stop_wait"
    /\ \/ sess[call[t].inst].cmd # "started"
       \/ proc[call[t].inst].state = "exited"
    /\ call' = [call EXCEPT ![t].pc = "stop_delete"]
    /\ UNCHANGED <<gen, gateway, units, cfgMax, useCLI, semaphore, sessions, sess, task, proc, reader, fwd,
                   nextInst, nCalls, released>>

\* a Stop that leaves the session in the table
StopDeleteSkips(t) ==
    /\ NoneDone
    /\ call[t].pc = "stop_delete"
    /\ call' = [call EXCEPT ![t].pc = "stop_release"]
    /\ UNCHANGED <<gen, gateway, units, cfgMax, useCLI, semaphore, sessions, sess, task, proc, reader, fwd,
                   nextInst, nCalls, released>>

\* r.sessions.Delete(sessionID): whatever object the id maps to now
StopDelete(t) ==
    /\ NoneDone
    /\ call[t].pc = "stop_delete"
    /\ sessions' = [sessions EXCEPT ![call[t].id] = NoInst]
    /\ call' = [call EXCEPT ![t].pc = "stop_release"]
    /\ UNCHANGED <<gen, gateway, units, cfgMax, useCLI, semaphore, sess, task, proc, reader, fwd,
                   nextInst, nCalls, released>>

\* a Stop that returns without giving the slot back
StopKeepsSlot(t) ==
    /\ NoneDone
    /\ call[t].pc = "stop_release"
    /\ call' = [call EXCEPT ![t] = AfterStop(call[t], TRUE)]
    /\ UNCHANGED <<gen, gateway, units, cfgMax, useCLI, semaphore, sessions, sess, task, proc, reader, fwd,
                   nextInst, nCalls, released>>

\* <-r.semaphore: blocks while the channel is empty
StopRelease(t) ==
    /\ NoneDone
    /\ call[t].pc = "stop_release"
    /\ semaphore > 0
    /\ semaphore' = semaphore - 1
    /\ released' = [released EXCEPT ![call[t].inst] = @ + 1]
    /\ call' = [call EXCEPT ![t] = AfterStop(call[t], TRUE)]
    /\ UNCHANGED <<gen, gateway, units, cfgMax, useCLI, sessions, sess, task, proc, reader, fwd,
                   nextInst, nCalls>>

Stop(t) ==
    \/ \E id \in SessionIDs, force \in BOOLEAN : StopLoad(t, id, force)
    \/ StopSignal(t)
    \/ StopKill(t)
    \/ StopWait(t)
    \/ StopDelete(t)
    \/ StopRelease(t)

\* Restart(ctx, sessionID, opts): r.Stop(ctx, sessionID, false), then
\* r.Start(ctx, opts). The callers restart a session with the options that
\* compute its id, and with a context that is not done.
RestartLoad(t, opts) ==
    /\ Begin(t, AfterLoad([Idle EXCEPT !.op = "Restart", !.id = GenerateSessionID(opts),
                                       !.opts = opts]), FALSE)
    /\ UNCHANGED <<gen, gateway, units, cfgMax, useCLI, semaphore, sessions, sess, task, proc, reader, fwd,
                   nextInst, released>>

Restart(t) ==
    \/ \E opts \in StartOptionsSet : RestartLoad(t, opts)
    \/ RestartAcquire(t)

\* Close: r.sessions.Range, calling r.Stop(context.Background(), key, true) for
\* each key; a key is visited at most once
AfterRange(c) ==
    LET todo == { id \in SessionIDs : sessions[id] # NoInst /\ id \notin c.visited }
    IN IF todo = {}
       THEN {Result(c, "ok", << >>)}
       ELSE { [c EXCEPT !.pc = "stop_load", !.id = id, !.force = TRUE,
                        !.visited = @ \cup {id}] : id \in todo }

\* Close(), first step: Range reaches its first key, or ends
CloseBegin(t) ==
    /\ \E rec \in AfterRange([Idle EXCEPT !.op = "Close"]) : Begin(t, rec, FALSE)
    /\ UNCHANGED <<gen, gateway, units, cfgMax, useCLI, semaphore, sessions, sess, task, proc, reader, fwd,
                   nextInst, released>>

\* Range reaches its next key, or ends
CloseRange(t) ==
    /\ NoneDone
    /\ call[t].pc = "close_range"
    /\ \E rec \in AfterRange(call[t]) : call' = [call EXCEPT ![t] = rec]
    /\ UNCHANGED <<gen, gateway, units, cfgMax, useCLI, semaphore, sessions, sess, task, proc, reader, fwd,
                   nextInst, nCalls, released>>

Close(t) ==
    \/ CloseBegin(t)
    \/ CloseStopLoad(t)
    \/ CloseRange(t)

\* -------------------------------------------------- sdkSession.run (API mode)
\* a send of n responses to s.responseCh blocks while the queue is full
Room(i, n) == Len(sess[i].responseCh) + n <= ResponseQueueDepth

\* the deferred function of run() and runCLI(), applied to session object s:
\* close(s.responseCh), then s.Running = false
Deferred(s) == [s EXCEPT !.responseClosed = TRUE, !.Running = FALSE]

\* a run loop that takes the newest prompt of the queue, not the oldest
RunSelectNewest(i) ==
    /\ NoneDone
    /\ ~useCLI
    /\ task[i].pc = "loop"
    /\ sess[i].promptCh # << >>
    /\ task' = [task EXCEPT ![i] = [pc |-> "api", calls |-> 0, asked |-> 0, invoked |-> 0]]
    /\ sess' = [sess EXCEPT ![i].promptCh = SubSeq(@, 1, Len(@) - 1),
                            ![i].turnCount = @ + 1,
                            ![i].conversation =
                                Append(@, [role |-> "user",
                                           text |-> sess[i].promptCh[Len(sess[i].promptCh)]])]
    /\ UNCHANGED <<gen, gateway, units, cfgMax, useCLI, semaphore, sessions, proc, reader, fwd, call,
                   nextInst, nCalls, released>>

\* The select of run(): the session context is done or the prompt queue is
\* closed, and run returns through its deferred function; or a prompt is
\* received, and handlePrompt counts the turn and appends the user message
\* before it calls the model.
RunSelect(i) ==
    /\ NoneDone
    /\ ~useCLI
    /\ task[i].pc = "loop"
    /\ \/ /\ sess[i].ctxDone \/ (sess[i].promptCh = << >> /\ sess[i].promptClosed)
          /\ task' = [task EXCEPT ![i].pc = "ended"]
          /\ sess' = [sess EXCEPT ![i] = Deferred(@)]
       \/ /\ sess[i].promptCh # << >>
          /\ task' = [task EXCEPT ![i] = [pc |-> "api", calls |-> 0, asked |-> 0, invoked |-> 0]]
          /\ sess' = [sess EXCEPT ![i].promptCh = Tail(@),
                                  ![i].turnCount = @ + 1,
                                  ![i].conversation =
                                      Append(@, [role |-> "user",
                                                 text |-> Head(sess[i].promptCh)])]
    /\ UNCHANGED <<gen, gateway, units, cfgMax, useCLI, semaphore, sessions, proc, reader, fwd, call,
                   nextInst, nCalls, released>>

\* a handlePrompt that ends the session when the call of the model fails
HandlePromptReplyErrorEnds(i) ==
    /\ NoneDone
    /\ task[i].pc = "api"
    /\ Room(i, 1)
    /\ sess' = [sess EXCEPT ![i] = Deferred([@ EXCEPT !.responseCh = Append(@, "error")])]
    /\ task' = [task EXCEPT ![i] = [pc |-> "ended", calls |-> 1, asked |-> 0, invoked |-> 0]]
    /\ UNCHANGED <<gen, gateway, units, cfgMax, useCLI, semaphore, sessions, proc, reader, fwd, call,
                   nextInst, nCalls, released>>

\* handlePrompt, from its call of Messages.New on. The call returns an error,
\* which becomes an error response; or a text reply with a stop reason other
\* than tool_use: the text response, the usage added to the token counter,
\* the assistant message appended to the conversation, the complete response;
\* or a tool_use reply with stop reason tool_use: the tool call and the
\* result of executing it as responses, the usage, the assistant message,
\* and handleToolResults; or a reply with stop reason tool_use whose only
\* block is text: the text response, the usage, the assistant message, and
\* handleToolResults, which finds no tool_use block in the last message and
\* returns at `if len(toolResults) == 0 { return }`.
HandlePromptReply(i) ==
    /\ NoneDone
    /\ task[i].pc = "api"
    /\ \/ /\ Room(i, 1)
          /\ sess' = [sess EXCEPT ![i].responseCh = Append(@, "error")]
          /\ task' = [task EXCEPT ![i] = [pc |-> "loop", calls |-> 1, asked |-> 0, invoked |-> 0]]
       \/ /\ Room(i, 2)
          /\ sess' = [sess EXCEPT ![i].responseCh = @ \o <<"text", "complete">>,
                                  ![i].tokenCount = @ + ReplyUsage,
                                  ![i].conversation =
                                      Append(@, [role |-> "assistant", text |-> "reply"])]
          /\ task' = [task EXCEPT ![i] = [pc |-> "loop", calls |-> 1, asked |-> 0, invoked |-> 0]]
       \/ /\ Room(i, 2)
          /\ sess' = [sess EXCEPT ![i].responseCh = @ \o <<"tool_call", "tool_result">>,
                                  ![i].tokenCount = @ + ReplyUsage,
                                  ![i].conversation =
                                      Append(@, [role |-> "assistant", text |-> "tool_use"])]
          /\ task' = [task EXCEPT ![i] = [pc |-> "tools", calls |-> 1, asked |-> 1, invoked |-> 1]]
       \/ /\ Room(i, 1)
          /\ sess' = [sess EXCEPT ![i].responseCh = Append(@, "text"),
                                  ![i].tokenCount = @ + ReplyUsage,
                                  ![i].conversation =
                                      Append(@, [role |-> "assistant", text |-> "reply"])]
          /\ task' = [task EXCEPT ![i] = [pc |-> "loop", calls |-> 1, asked |-> 0, invoked |-> 0]]
    /\ UNCHANGED <<gen, gateway, units, cfgMax, useCLI, semaphore, sessions, proc, reader, fwd, call,
                   nextInst, nCalls, released>>

\* handleToolResults: the tools of the last assistant message are executed
\* (for the blocks of the first reply, which handlePrompt has executed
\* already, a second time), the results of this execution appended as a user
\* message, and the model is called again.
\* An error of the call is an error response; a text reply is a text response,
\* an assistant message and the complete response; a tool_use reply with stop
\* reason tool_use is a tool call response, an assistant message and
\* handleToolResults once more. The model stops asking for tools after
\* MaxModelCalls calls for one prompt.
HandleToolResults(i) ==
    /\ NoneDone
    /\ task[i].pc = "tools"
    /\ LET conv == Append(sess[i].conversation, [role |-> "user", text |-> "tool_result"])
       IN \/ /\ Room(i, 1)
             /\ sess' = [sess EXCEPT ![i].responseCh = Append(@, "error"),
                                     ![i].conversation = conv]
             /\ task' = [task EXCEPT ![i] = [@ EXCEPT !.pc = "loop", !.calls = @ + 1, !.invoked = @ + 1]]
          \/ /\ Room(i, 2)
             /\ sess' = [sess EXCEPT ![i].responseCh = @ \o <<"text", "complete">>,
                                     ![i].conversation =
                                         Append(conv, [role |-> "assistant", text |-> "reply"])]
             /\ task' = [task EXCEPT ![i] = [@ EXCEPT !.pc = "loop", !.calls = @ + 1, !.invoked = @ + 1]]
          \/ /\ task[i].calls < MaxModelCalls
             /\ Room(i, 1)
             /\ sess' = [sess EXCEPT ![i].responseCh = Append(@, "tool_call"),
                                     ![i].conversation =
                                         Append(conv, [role |-> "assistant", text |-> "tool_use"])]
             /\ task' = [task EXCEPT ![i] = [@ EXCEPT !.calls = @ + 1, !.asked = @ + 1, !.invoked = @ + 1]]
    /\ UNCHANGED <<gen, gateway, units, cfgMax, useCLI, semaphore, sessions, proc, reader, fwd, call,
                   nextInst, nCalls, released>>

run(i) ==
    \/ RunSelect(i)
    \/ HandlePromptReply(i)
    \/ HandleToolResults(i)

\* ------------------------------------------- sdkSession.runCLI (subprocess)
\* s.cmd = exec.CommandContext(s.ctx, "claude", args...), its two pipes (the
\* pipes of a command just made are taken to succeed) and s.cmd.Start().
\* Start fails when the binary cannot be launched, and always when the
\* session context is already done; a failed Start closes the pipes, and
\* runCLI sends an error response and returns through its deferred function.
\* On success the subprocess runs and go s.readCLIOutput() follows.
CliStart(i) ==
    /\ NoneDone
    /\ task[i].pc = "cli_start"
    /\ \/ /\ ~sess[i].ctxDone
          /\ sess' = [sess EXCEPT ![i].cmd = "started", ![i].stdin = "open"]
          /\ proc' = [proc EXCEPT ![i].state = "running"]
          /\ reader' = [reader EXCEPT ![i].pc = "scan"]
          /\ task' = [task EXCEPT ![i].pc = "loop"]
       \/ /\ Room(i, 1)
          /\ sess' = [sess EXCEPT ![i] =
                         Deferred([@ EXCEPT !.cmd = "failed", !.stdin = "closed",
                                            !.responseCh = Append(@, "error")])]
          /\ task' = [task EXCEPT ![i].pc = "ended"]
          /\ UNCHANGED <<proc, reader>>
    /\ UNCHANGED <<gen, gateway, units, cfgMax, useCLI, semaphore, sessions, fwd, call,
                   nextInst, nCalls, released>>

\* The select of runCLI(). On the way out, s.stdin.Close(). A prompt received
\* goes to handleCLIPrompt: the turn counter, then the prompt as a line on
\* stdin; the write fails on a closed pipe or when the subprocess is gone,
\* and that is an error response.
CliSelect(i) ==
    /\ NoneDone
    /\ useCLI
    /\ task[i].pc = "loop"
    /\ \/ /\ sess[i].ctxDone \/ (sess[i].promptCh = << >> /\ sess[i].promptClosed)
          /\ task' = [task EXCEPT ![i].pc = "cli_wait"]
          /\ sess' = [sess EXCEPT ![i].stdin = "closed"]
          /\ UNCHANGED proc
       \/ /\ sess[i].promptCh # << >>
          /\ UNCHANGED task
          /\ IF sess[i].stdin = "open" /\ proc[i].state = "running"
             THEN /\ proc' = [proc EXCEPT ![i].stdinLines = @ + 1]
                  /\ sess' = [sess EXCEPT ![i].promptCh = Tail(@), ![i].turnCount = @ + 1]
             ELSE /\ Room(i, 1)
                  /\ sess' = [sess EXCEPT ![i].promptCh = Tail(@), ![i].turnCount = @ + 1,
                                          ![i].responseCh = Append(@, "error")]
                  /\ UNCHANGED proc
    /\ UNCHANGED <<gen, gateway, units, cfgMax, useCLI, semaphore, sessions, reader, fwd, call,
                   nextInst, nCalls, released>>

\* s.cmd.Wait() returns when the subprocess has exited, and runCLI returns
\* through its deferred function
CliWait(i) ==
    /\ NoneDone
    /\ task[i].pc = "cli_wait"
    /\ proc[i].state = "exited"
    /\ task' = [task EXCEPT ![i].pc = "ended"]
    /\ sess' = [sess EXCEPT ![i] = Deferred(@)]
    /\ UNCHANGED <<gen, gateway, units, cfgMax, useCLI, semaphore, sessions, proc, reader, fwd, call,
                   nextInst, nCalls, released>>

runCLI(i) ==
    \/ CliStart(i)
    \/ CliSelect(i)
    \/ CliWait(i)

\* ------------------------------------------------------- the claude process
\* what the subprocess writes for one prompt line: lines of the JSON kinds
\* readCLIOutput tells apart, an empty line, a line that is not JSON ("raw")
Replies == { <<"text", "result">>, <<"", "error">>, <<"raw", "status">> }

\* the subprocess answers a prompt line on its standard output
SubprocessReply(i) ==
    /\ NoneDone
    /\ proc[i].state = "running"
    /\ proc[i].stdinLines > 0
    /\ \E reply \in Replies :
          proc' = [proc EXCEPT ![i].stdinLines = @ - 1, ![i].stdout = @ \o reply]
    /\ UNCHANGED <<gen, gateway, units, cfgMax, useCLI, semaphore, sessions, sess, task, reader, fwd, call,
                   nextInst, nCalls, released>>

\* the subprocess exits: its input was closed, or the session context was
\* cancelled (exec.CommandContext kills it) or Stop killed it
SubprocessExit(i) ==
    /\ NoneDone
    /\ proc[i].state = "running"
    /\ sess[i].stdin = "closed" \/ sess[i].ctxDone
    /\ proc' = [proc EXCEPT ![i].state = "exited"]
    /\ UNCHANGED <<gen, gateway, units, cfgMax, useCLI, semaphore, sessions, sess, task, reader, fwd, call,
                   nextInst, nCalls, released>>

Subprocess(i) ==
    \/ SubprocessReply(i)
    \/ SubprocessExit(i)

\* ---------------------------------------------------- sdkSession.readCLIOutput
\* the response readCLIOutput makes of one line; "" when it makes none
LineResponse(line) ==
    CASE line = "" -> ""
      [] line = "raw" -> "text"
      [] line \in {"text", "content"} -> "text"
      [] line = "error" -> "error"
      [] line \in {"done", "complete", "result"} -> "complete"
      [] OTHER -> ""

\* scanner.Scan(): the next line and the response made of it, sent to
\* s.responseCh (a send on the closed queue panics). At the end of the output
\* the goroutine returns, which nothing observes.
readCLIOutput(i) ==
    /\ NoneDone
    /\ reader[i].pc = "scan"
    /\ proc[i].stdout # << >>
    /\ proc' = [proc EXCEPT ![i].stdout = Tail(@)]
    /\ LET r == LineResponse(Head(proc[i].stdout))
       IN IF r = "" THEN UNCHANGED <<reader, sess>>
          ELSE IF sess[i].responseClosed
          THEN reader' = [reader EXCEPT ![i].pc = "panic"] /\ UNCHANGED sess
          ELSE /\ Room(i, 1)
               /\ sess' = [sess EXCEPT ![i].responseCh = Append(@, r)]
               /\ UNCHANGED reader
    /\ UNCHANGED <<gen, gateway, units, cfgMax, useCLI, semaphore, sessions, task, fwd, call,
                   nextInst, nCalls, released>>

\* ------------------------------------------------------ the other operations
\* the prompt a caller sends: the callers send different ones
PromptOf(t) == IF t = 1 THEN "p" ELSE "q"

\* a SendPrompt that returns nil when it finds no session
SendPromptLoadSilent(t, id, c) ==
    /\ LET rec == [Idle EXCEPT !.op = "SendPrompt", !.pc = "send_select", !.id = id,
                               !.ctxDone = c, !.prompt = PromptOf(t)]
       IN Begin(t, IF sessions[id] = NoInst
                   THEN Result(rec, "ok", << >>)
                   ELSE [rec EXCEPT !.found = TRUE, !.inst = sessions[id]], FALSE)
    /\ UNCHANGED <<gen, gateway, units, cfgMax, useCLI, semaphore, sessions, sess, task, proc, reader, fwd,
                   nextInst, released>>

\* SendPrompt(ctx, sessionID, prompt), first step:
\* r.sessions.Load(sessionID); an unknown id is an error
SendPromptLoad(t, id, c) ==
    /\ LET rec == [Idle EXCEPT !.op = "SendPrompt", !.pc = "send_select", !.id = id,
                               !.ctxDone = c, !.prompt = PromptOf(t)]
       IN Begin(t, IF sessions[id] = NoInst
                   THEN Result(rec, "errNotFound", << >>)
                   ELSE [rec EXCEPT !.found = TRUE, !.inst = sessions[id]], FALSE)
    /\ UNCHANGED <<gen, gateway, units, cfgMax, useCLI, semaphore, sessions, sess, task, proc, reader, fwd,
                   nextInst, released>>

\* SendPrompt: select { session.promptCh <- prompt; <-ctx.Done(); <-session.ctx.Done() }
SendPromptSelect(t) ==
    /\ NoneDone
    /\ call[t].pc = "send_select"
    /\ \E o \in SendOutcomes(call[t].ctxDone, call[t].inst) :
          /\ sess' = AfterSend(call[t].inst, o, call[t].prompt)
          /\ IF o = "panic" THEN Panic(t)
             ELSE Finish(t, IF o = "sent" THEN "ok" ELSE o, << >>)
    /\ UNCHANGED <<gen, gateway, units, cfgMax, useCLI, semaphore, sessions, task, proc, reader, fwd,
                   nextInst, nCalls, released>>

SendPrompt(t) ==
    \/ \E id \in SessionIDs, c \in BOOLEAN : SendPromptLoad(t, id, c)
    \/ SendPromptSelect(t)

\* StreamResponses(ctx, sessionID): an unknown id is an error; otherwise a
\* new channel ch and a goroutine that forwards the session's response queue
\* to it until the caller's context is done or the queue is closed
StreamResponses(t) ==
    /\ \E id \in SessionIDs, c \in BOOLEAN :
          LET rec == [Idle EXCEPT !.op = "StreamResponses", !.id = id, !.ctxDone = c]
          IN IF sessions[id] = NoInst
             THEN /\ Begin(t, Result(rec, "errNotFound", << >>), FALSE)
                  /\ UNCHANGED fwd
             ELSE /\ Begin(t, Result([rec EXCEPT !.found = TRUE], "ok", <<Len(fwd) + 1>>), TRUE)
                  /\ fwd' = Append(fwd, [inst |-> sessions[id], ctxDone |-> c,
                                         pc |-> "recv", item |-> "", ch |-> << >>])
    /\ UNCHANGED <<gen, gateway, units, cfgMax, useCLI, semaphore, sessions, sess, task, proc, reader,
                   nextInst, released>>

\* the forwarder's outer select: <-ctx.Done(), or a receive from the session's
\* response queue (which takes the response off that queue)
ForwardReceive(k) ==
    /\ NoneDone
    /\ fwd[k].pc = "recv"
    /\ LET i == fwd[k].inst
       IN \/ /\ fwd[k].ctxDone
             /\ fwd' = [fwd EXCEPT ![k].pc = "closed"]
             /\ UNCHANGED sess
          \/ /\ sess[i].responseCh # << >>
             /\ fwd' = [fwd EXCEPT ![k].pc = "send", ![k].item = Head(sess[i].responseCh)]
             /\ sess' = [sess EXCEPT ![i].responseCh = Tail(@)]
          \/ /\ sess[i].responseCh = << >>
             /\ sess[i].responseClosed
             /\ fwd' = [fwd EXCEPT ![k].pc = "closed"]
             /\ UNCHANGED sess
    /\ UNCHANGED <<gen, gateway, units, cfgMax, useCLI, semaphore, sessions, task, proc, reader, call,
                   nextInst, nCalls, released>>

\* the forwarder's inner select: ch <- resp, or <-ctx.Done()
ForwardSend(k) ==
    /\ NoneDone
    /\ fwd[k].pc = "send"
    /\ \/ /\ Len(fwd[k].ch) < ResponseQueueDepth
          /\ fwd' = [fwd EXCEPT ![k].pc = "recv", ![k].item = "", ![k].ch = Append(@, fwd[k].item)]
       \/ /\ fwd[k].ctxDone
          /\ fwd' = [fwd EXCEPT ![k].pc = "closed", ![k].item = ""]
    /\ UNCHANGED <<gen, gateway, units, cfgMax, useCLI, semaphore, sessions, sess, task, proc, reader, call,
                   nextInst, nCalls, released>>

Forward(k) ==
    \/ ForwardReceive(k)
    \/ ForwardSend(k)

\* a status that reports a session that is not there as unhealthy
StatusOfUnhealthy(id) ==
    IF sessions[id] = NoInst
    THEN [SessionID |-> id, Running |-> FALSE, Health |-> "unhealthy", SDKInfo |-> << >>]
    ELSE LET s == sess[sessions[id]]
         IN [SessionID |-> s.SessionID, Running |-> s.Running,
             Health |-> IF s.Running THEN "healthy" ELSE "unhealthy",
             SDKInfo |-> <<s.tokenCount, s.turnCount>>]

\* GetStatus: for an unknown id a synthesized status and no error; otherwise
\* the session's state, read under its lock
StatusOf(id) ==
    IF sessions[id] = NoInst
    THEN [SessionID |-> id, Running |-> FALSE, Health |-> "unknown", SDKInfo |-> << >>]
    ELSE LET s == sess[sessions[id]]
         IN [SessionID |-> s.SessionID, Running |-> s.Running,
             Health |-> IF s.Running THEN "healthy" ELSE "unhealthy",
             SDKInfo |-> <<s.tokenCount, s.turnCount>>]

GetStatus(t) ==
    /\ \E id \in SessionIDs :
          Begin(t, Result([Idle EXCEPT !.op = "GetStatus", !.id = id,
                                       !.found = sessions[id] # NoInst],
                          "ok", StatusOf(id)), FALSE)
    /\ UNCHANGED <<gen, gateway, units, cfgMax, useCLI, semaphore, sessions, sess, task, proc, reader, fwd,
                   nextInst, released>>

\* CaptureOutput: the last `lines` turns of the conversation, role-tagged
Transcript(conv, lines) ==
    LET start == IF lines > 0 /\ Len(conv) > lines THEN Len(conv) - lines ELSE 0
    IN SubSeq(conv, start + 1, Len(conv))

CaptureOutput(t) ==
    /\ \E id \in SessionIDs :
          LET rec == [Idle EXCEPT !.op = "CaptureOutput", !.id = id]
          IN Begin(t, IF sessions[id] = NoInst
                      THEN Result(rec, "errNotFound", << >>)
                      ELSE Result([rec EXCEPT !.found = TRUE], "ok",
                                  Transcript(sess[sessions[id]].conversation, CaptureLines)), FALSE)
    /\ UNCHANGED <<gen, gateway, units, cfgMax, useCLI, semaphore, sessions, sess, task, proc, reader, fwd,
                   nextInst, released>>

\* ListSessions(filter): the sessions of the table that pass the filter; an
\* empty RigName or Role and a nil Running do not filter
SessionFilters ==
    { [RigName |-> << >>, Role |-> NoRole, Running |-> "nil"],
      [RigName |-> <<"a">>, Role |-> RolePolecat, Running |-> "nil"],
      [RigName |-> << >>, Role |-> NoRole, Running |-> "true"] }

Listed(filter) ==
    { id \in SessionIDs :
        /\ sessions[id] # NoInst
        /\ LET s == sess[sessions[id]]
           IN /\ filter.RigName = << >> \/ s.RigName = filter.RigName
              /\ filter.Role = NoRole \/ s.Role = filter.Role
              /\ filter.Running = "nil" \/ s.Running = (filter.Running = "true") }

ListSessions(t) ==
    /\ \E filter \in SessionFilters :
          Begin(t, Result([Idle EXCEPT !.op = "ListSessions"], "ok", Listed(filter)), FALSE)
    /\ UNCHANGED <<gen, gateway, units, cfgMax, useCLI, semaphore, sessions, sess, task, proc, reader, fwd,
                   nextInst, released>>

\* ------------------------------------------------------------- the API server
\* the options of the session the clients of the server create
GatewayOptionsSet ==
    { [Role |-> RolePolecat, RigName |-> <<"a">>, WorkerName |-> <<"x">>, InitialPrompt |-> ""] }
GatewayID == <<"g","t","-","a","-","x">>

\* append(s, c): written into the backing array when it has room, and
\* otherwise into a new array of twice the capacity
AppendConn(w, c) ==
    IF w.len < Len(w.arr)
    THEN [arr |-> [w.arr EXCEPT ![w.len + 1] = c], len |-> w.len + 1]
    ELSE LET newcap == IF Len(w.arr) = 0 THEN 1 ELSE 2 * Len(w.arr)
         IN [arr |-> SubSeq(w.arr, 1, w.len) \o <<c>> \o [n \in 1..(newcap - w.len - 1) |-> 0],
             len |-> w.len + 1]

\* removeWSConn: append(conns[:i], conns[i+1:]...) for the first i with
\* conns[i] == c: the later elements move down one place in the backing
\* array, whose last used place keeps its value
RemoveConn(w, c) ==
    LET at == { n \in 1..w.len : w.arr[n] = c }
    IN IF at = {} THEN w
       ELSE LET i == CHOOSE n \in at : \A m \in at : n <= m
            IN [arr |-> [n \in 1..Len(w.arr) |->
                            IF n >= i /\ n < w.len THEN w.arr[n + 1] ELSE w.arr[n]],
                len |-> w.len - 1]

\* The slice a broadcast is ranging over, after wsConns[id] went from w to
\* v: it reads the same backing array, unsynchronized, until an append moves
\* wsConns[id] to a new one.
StreamAfter(w, v) ==
    IF ~stream.shared THEN stream
    ELSE IF Len(v.arr) # Len(w.arr) THEN [stream EXCEPT !.shared = FALSE]
    ELSE [stream EXCEPT !.view = [n \in 1..Len(stream.view) |-> v.arr[n]]]

\* handleWebSocket: the upgrade, and the connection appended to wsConns[id]
\* under the lock
Connect(c) ==
    /\ NoneDone
    /\ conn[c].state = "none"
    /\ \A d \in Conns : d < c => conn[d].state # "none"
    /\ conn' = [conn EXCEPT ![c] = [NoConn EXCEPT !.state = "open", !.since = stream.pos]]
    /\ wsConns' = AppendConn(wsConns, c)
    /\ stream' = StreamAfter(wsConns, AppendConn(wsConns, c))
    /\ UNCHANGED <<gen, units, cfgMax, useCLI, semaphore, sessions, sess, task, proc, reader, fwd,
                   call, nextInst, nCalls, released>>

\* the peer goes away: conn.ReadMessage fails in the connection's goroutine,
\* whose deferred function removes the connection under the lock and closes it
Disconnect(c) ==
    /\ NoneDone
    /\ conn[c].state = "open"
    /\ conn' = [conn EXCEPT ![c].state = "closed", ![c].slow = FALSE]
    /\ wsConns' = RemoveConn(wsConns, c)
    /\ stream' = StreamAfter(wsConns, RemoveConn(wsConns, c))
    /\ UNCHANGED <<gen, units, cfgMax, useCLI, semaphore, sessions, sess, task, proc, reader, fwd,
                   call, nextInst, nCalls, released>>

\* the peer stops reading and the connection's send buffer fills up
PeerStalls(c) ==
    /\ NoneDone
    /\ conn[c].state = "open" /\ ~conn[c].slow
    /\ conn' = [conn EXCEPT ![c].slow = TRUE]
    /\ UNCHANGED <<gen, wsConns, stream, units, cfgMax, useCLI, semaphore, sessions, sess, task,
                   proc, reader, fwd, call, nextInst, nCalls, released>>

\* the peer reads again
PeerResumes(c) ==
    /\ NoneDone
    /\ conn[c].state = "open" /\ conn[c].slow
    /\ conn' = [conn EXCEPT ![c].slow = FALSE]
    /\ UNCHANGED <<gen, wsConns, stream, units, cfgMax, useCLI, semaphore, sessions, sess, task,
                   proc, reader, fwd, call, nextInst, nCalls, released>>

\* The goroutine of handleWebSocket reads a prompt from the connection and
\* calls runtime.SendPrompt(context.Background(), sessionID, req.Prompt),
\* dropping its error: the Load of the session and the select on its prompt
\* queue.
WSPrompt(c) ==
    /\ NoneDone
    /\ conn[c].state = "open"
    /\ LET i == sessions[GatewayID]
       IN /\ i # NoInst
          /\ sess[i].turnCount + Len(sess[i].promptCh) < MaxPrompts
          /\ \E o \in SendOutcomes(FALSE, i) \ {"panic"} : sess' = AfterSend(i, o, "p")
    /\ UNCHANGED <<gen, gateway, units, cfgMax, useCLI, semaphore, sessions, task, proc, reader,
                   fwd, call, nextInst, nCalls, released>>

\* handleCreateSession, after runtime.Start has succeeded:
\* go s.streamToWebSockets(session.SessionID), which calls
\* runtime.StreamResponses(context.Background(), sessionID)
StreamSubscribe ==
    /\ NoneDone
    /\ stream.pc = "none"
    /\ sessions[GatewayID] # NoInst
    /\ fwd' = Append(fwd, [inst |-> sessions[GatewayID], ctxDone |-> FALSE,
                           pc |-> "recv", item |-> "", ch |-> << >>])
    /\ stream' = [stream EXCEPT !.pc = "recv", !.k = Len(fwd) + 1]
    /\ UNCHANGED <<gen, wsConns, conn, units, cfgMax, useCLI, semaphore, sessions, sess, task,
                   proc, reader, call, nextInst, nCalls, released>>

\* streamToWebSockets: the next response of respCh, and broadcastToSession up
\* to its loop: conns := s.wsConns[sessionID] under the read lock, the message
\* marshalled once, the first connection read from the slice
StreamReceive ==
    /\ NoneDone
    /\ stream.pc = "recv"
    /\ stream.pos < Len(fwd[stream.k].ch)
    /\ LET view == SubSeq(wsConns.arr, 1, wsConns.len)
       IN stream' = IF view = << >>
                    THEN [stream EXCEPT !.pos = @ + 1]
                    ELSE [stream EXCEPT !.pos = @ + 1, !.pc = "write", !.view = view,
                                        !.shared = TRUE, !.idx = 1, !.target = view[1]]
    /\ UNCHANGED <<gen, wsConns, conn, units, cfgMax, useCLI, semaphore, sessions, sess, task,
                   proc, reader, fwd, call, nextInst, nCalls, released>>

\* broadcastToSession, one round of its loop: conn.WriteMessage, which blocks
\* while the connection's send buffer is full and fails on a closed
\* connection, its error dropped; then the next connection is read from the
\* slice, or the loop ends
StreamWrite ==
    /\ NoneDone
    /\ stream.pc = "write"
    /\ LET c == stream.target
       IN /\ ~(conn[c].state = "open" /\ conn[c].slow)
          /\ conn' = IF conn[c].state = "open"
                     THEN [conn EXCEPT ![c].got = Append(@, stream.pos)]
                     ELSE conn
    /\ stream' = IF stream.idx < Len(stream.view)
                 THEN [stream EXCEPT !.idx = @ + 1, !.target = stream.view[stream.idx + 1]]
                 ELSE [stream EXCEPT !.pc = "recv", !.view = << >>, !.shared = FALSE,
                                     !.idx = 0, !.target = 0]
    /\ UNCHANGED <<gen, wsConns, units, cfgMax, useCLI, semaphore, sessions, sess, task,
                   proc, reader, fwd, call, nextInst, nCalls, released>>

streamToWebSockets ==
    \/ StreamSubscribe
    \/ StreamReceive
    \/ StreamWrite

\* ------------------------------------------------------------ specification
\* The lifecycle of sessions: callers that start, stop and restart sessions
\* and close the runtime concurrently. They give no prompts, so that the
\* goroutines of a session only start and end.
Next ==
    \/ \E t \in Callers :
          \/ Start(t, StartOptionsSet)
          \/ Stop(t)
          \/ Restart(t)
          \/ Close(t)
          \/ Return(t)
    \/ \E i \in Inst :
          \/ RunSelect(i)
          \/ runCLI(i)
          \/ SubprocessExit(i)

Spec == Init /\ [][Next]_vars

\* The traffic of sessions: one caller that makes any call of the runtime,
\* the goroutines of the sessions and of the streams.
NextIO ==
    \/ Start(1, PromptedOptionsSet)
    \/ StartPrompt(1)
    \/ Stop(1)
    \/ SendPrompt(1)
    \/ StreamResponses(1)
    \/ GetStatus(1)
    \/ CaptureOutput(1)
    \/ ListSessions(1)
    \/ Return(1)
    \/ \E i \in Inst :
          \/ run(i)
          \/ runCLI(i)
          \/ Subprocess(i)
          \/ readCLIOutput(i)
    \/ \E k \in DOMAIN fwd : Forward(k)

SpecIO == Init /\ [][NextIO]_vars

\* Direct-API mode: callers that start sessions and send them prompts
\* concurrently, each caller its own prompt, and the run loops of the sessions
\* with their calls of the model.
InitAPI == Init /\ ~useCLI

NextAPI ==
    \/ \E t \in Callers :
          \/ Start(t, PromptedOptionsSet)
          \/ StartPrompt(t)
          \/ SendPrompt(t)
          \/ Return(t)
    \/ \E i \in Inst : run(i)

SpecAPI == InitAPI /\ [][NextAPI]_vars

\* The API server in front of a runtime in direct-API mode, from the moment
\* handleCreateSession has started the session gt-a-x and its Start has
\* returned: the clients connect to the session over WebSocket and disconnect,
\* read slowly or not at all, and send it prompts; the session's responses
\* are forwarded to the server's streaming goroutine, which broadcasts them.
InitGW ==
    /\ gen = NoGen
    /\ UnitsAtRest("")
    /\ wsConns = NoConns
    /\ conn = [c \in Conns |-> NoConn]
    /\ stream = NoStream
    /\ cfgMax = 1
    /\ useCLI = FALSE
    /\ semaphore = 1
    /\ sessions = [id \in SessionIDs |-> IF id = GatewayID THEN 1 ELSE NoInst]
    /\ \E opts \in GatewayOptionsSet :
          sess = [i \in Inst |-> IF i = 1 THEN NewSession(opts) ELSE NoSession]
    /\ task = [i \in Inst |-> IF i = 1 THEN [pc |-> "loop", calls |-> 0, asked |-> 0, invoked |-> 0] ELSE NoTask]
    /\ proc = [i \in Inst |-> NoProc]
    /\ reader = [i \in Inst |-> NoTask]
    /\ fwd = << >>
    /\ call = [t \in Callers |-> Idle]
    /\ nextInst = 2
    /\ nCalls = 1
    /\ released = [i \in Inst |-> 0]

NextGW ==
    \/ \E i \in Inst : run(i)
    \/ \E k \in DOMAIN fwd : Forward(k)
    \/ streamToWebSockets
    \/ \E c \in Conns :
          \/ Connect(c)
          \/ Disconnect(c)
          \/ PeerStalls(c)
          \/ PeerResumes(c)
          \/ WSPrompt(c)

SpecGW == InitGW /\ [][NextGW]_vars

\* GenerateSessionID on its own: two StartOptions are chosen and the function
\* is applied to each, in either order.
InitID ==
    /\ \E a, b \in IdentityOptionsSet : gen = [NoGen EXCEPT !.a = a, !.b = b]
    /\ UnitsAtRest("")
    /\ wsConns = NoConns
    /\ conn = [c \in Conns |-> NoConn]
    /\ stream = NoStream
    /\ cfgMax = 1
    /\ useCLI = FALSE
    /\ semaphore = 0
    /\ sessions = [id \in SessionIDs |-> NoInst]
    /\ sess = [i \in Inst |-> NoSession]
    /\ task = [i \in Inst |-> NoTask]
    /\ proc = [i \in Inst |-> NoProc]
    /\ reader = [i \in Inst |-> NoTask]
    /\ fwd = << >>
    /\ call = [t \in Callers |-> Idle]
    /\ nextInst = 1
    /\ nCalls = 0
    /\ released = [i \in Inst |-> 0]

GenerateA ==
    /\ gen.ida = NoID
    /\ gen' = [gen EXCEPT !.ida = GenerateSessionID(gen.a)]
    /\ UNCHANGED <<gateway, units, cfgMax, useCLI, semaphore, sessions, sess, task, proc, reader, fwd,
                   call, nextInst, nCalls, released>>

GenerateB ==
    /\ gen.idb = NoID
    /\ gen' = [gen EXCEPT !.idb = GenerateSessionID(gen.b)]
    /\ UNCHANGED <<gateway, units, cfgMax, useCLI, semaphore, sessions, sess, task, proc, reader, fwd,
                   call, nextInst, nCalls, released>>

NextID ==
    \/ GenerateA
    \/ GenerateB

SpecID == InitID /\ [][NextID]_vars

\* ------------------------------------------------------------ properties
\* the ids in the live table
Table == { id \in SessionIDs : sessions[id] # NoInst }

\* the sessions admitted (built and stored by a Start) whose slot has not
\* been released
LiveSessions == { i \in Inst : sess[i].alloc /\ released[i] = 0 }

\* the calls of Start that hold a slot and have not yet stored their session
\* or given the slot back
Holders == { t \in Callers : call[t].pc \in {"start_check", "start_dup", "start_store"} }

\* caller t takes the first step of a call of op
Begins(t, op) == call[t].pc = "idle" /\ call'[t].pc # "idle" /\ call'[t].op = op

\* caller t takes the acquire step of a Start, its own or that of a Restart
Acquires(t) ==
    \/ Begins(t, "Start")
    \/ call[t].pc = "start_acquire" /\ call'[t].pc # "start_acquire"

\* a step leaves the runtime and every session as they are
RuntimeUnchanged == UNCHANGED <<semaphore, sessions, sess, task, proc, reader, fwd, released>>

\* C1: in every reachable state the number of live sessions, those admitted
\* and not yet released as well as those in the live table, is at most the
\* ceiling.
C1_CeilingNeverExceeded ==
    /\ Cardinality(LiveSessions) <= Ceiling
    /\ Cardinality(Table) <= Ceiling
    /\ semaphore <= Ceiling

\* C1 witness: the ceiling is two and two sessions are live, while a Restart
\* or a Close is under way.
C1_Witness ==
    /\ Ceiling = 2
    /\ Cardinality(LiveSessions) = 2
    /\ Cardinality(Table) = 2
    /\ \E t \in Callers : call[t].op \in {"Restart", "Close"} /\ call[t].pc # "done"


\* C2: a Start whose acquire finds every slot taken returns at that step,
\* admitting nothing and changing nothing, with the capacity error when its
\* context is not done (a caller that has already given up gets its context's
\* error); a Stop that returns from a live session leaves a slot free; and a
\* Start whose context is not done and that finds a slot free takes it and,
\* its id being fresh, stores its session and returns it.
C2_Step ==
    \A t \in Callers :
       /\ Acquires(t) /\ semaphore = Ceiling
             => /\ call'[t].pc = "done"
                /\ call'[t].res \in {"errCapacity", "errCtx"}
                /\ ~call'[t].ctxDone => call'[t].res = "errCapacity"
                /\ RuntimeUnchanged
       /\ call'[t].pc = "done" /\ call[t].pc # "done" /\ call'[t].op = "Stop"
          /\ call'[t].res = "ok" /\ call'[t].found
             => semaphore' < Ceiling
       /\ Acquires(t) /\ semaphore < Ceiling /\ ~call'[t].ctxDone
             => call'[t].pc = "start_check" /\ semaphore' = semaphore + 1
       /\ call[t].pc = "start_check" /\ call'[t] # call[t]
          /\ sessions[GenerateSessionID(call[t].opts)] = NoInst
             => call'[t].pc = "start_store"
       /\ call[t].pc = "start_store" /\ call'[t] # call[t]
             => /\ call'[t].pc = "done" /\ call'[t].res = "ok"
                /\ sessions'[GenerateSessionID(call[t].opts)] = nextInst
                /\ sess'[nextInst].alloc

C2_CapacityFailsFast == [][C2_Step]_vars

\* C2 witness: with a ceiling of one, a session was stopped, the next Start
\* was admitted, and one more Start, with a fresh id and a context that is
\* not done, has just been refused with the capacity error.
C2_Witness ==
    /\ Ceiling = 1
    /\ \E i, j \in Inst : i < j /\ released[i] = 1 /\ j \in LiveSessions
    /\ \E t \in Callers :
          /\ call[t].pc = "done" /\ call[t].op = "Start"
          /\ call[t].res = "errCapacity" /\ ~call[t].ctxDone
          /\ sessions[GenerateSessionID(call[t].opts)] = NoInst


\* C3 as stated: a Start, its context not done, that has admitted nothing and
\* has returned while a session with its id is in the live table has returned
\* the session-exists error.
C3_DuplicateAlwaysExists ==
    \A t \in Callers :
       ( /\ call[t].pc = "done" /\ call[t].op = "Start" /\ ~call[t].ctxDone
         /\ call[t].res # "ok"
         /\ sessions[GenerateSessionID(call[t].opts)] # NoInst )
       => call[t].res = "errExists"

\* C3, amended: a Start whose options compute the id of a live session fails
\* with the session-exists error when it finds a slot free, and with the
\* capacity error when it finds none (its context not being done); either way
\* the table, the sessions and, once it has returned, the number of held
\* slots are as they were, every held slot being that of a live session or of
\* a Start still under way.
C3_Step ==
    \A t \in Callers :
       /\ Acquires(t) /\ ~call'[t].ctxDone
          /\ sessions[GenerateSessionID(call'[t].opts)] # NoInst
             => \/ /\ semaphore < Ceiling
                   /\ call'[t].pc = "start_check"
                   /\ UNCHANGED <<sessions, sess, task, released>>
                \/ /\ semaphore = Ceiling
                   /\ call'[t].pc = "done" /\ call'[t].res = "errCapacity"
                   /\ RuntimeUnchanged
       /\ call[t].pc = "start_check" /\ call'[t] # call[t]
          /\ sessions[GenerateSessionID(call[t].opts)] # NoInst
             => call'[t].pc = "start_dup" /\ RuntimeUnchanged
       /\ call[t].pc = "start_dup" /\ call'[t] # call[t]
             => /\ call'[t].pc = "done" /\ call'[t].res = "errExists"
                /\ semaphore' = semaphore - 1
                /\ UNCHANGED <<sessions, sess, task, proc, reader, fwd, released>>
                /\ semaphore' = Cardinality(LiveSessions') + Cardinality(Holders')

C3_DuplicateRefused == [][C3_Step]_vars

\* C3 witness: with a ceiling of two and one live session, a second Start
\* computing its id has returned the session-exists error; the session is
\* still the one in the table and one slot is held.
C3_Witness ==
    /\ Ceiling = 2
    /\ semaphore = 1
    /\ \E t \in Callers :
          /\ call[t].pc = "done" /\ call[t].op = "Start" /\ call[t].res = "errExists"
          /\ sessions[GenerateSessionID(call[t].opts)] \in LiveSessions
          /\ sess[sessions[GenerateSessionID(call[t].opts)]].Running


\* C4: no session has its slot released more than once, only admitted
\* sessions have theirs released, and the number of held slots is the number
\* of admitted sessions not yet released plus the number of Starts that hold
\* a slot and have not yet stored their session or given the slot back.
C4_ReleasedOnce ==
    /\ \A i \in Inst : released[i] <= 1 /\ (released[i] = 1 => sess[i].alloc)
    /\ semaphore = Cardinality(LiveSessions) + Cardinality(Holders)

\* C4 witness: two Stops loaded the same session; one has gone all the way,
\* releasing the slot, and has returned, while the other has yet to signal.
C4_Witness ==
    \E t, u \in Callers :
       /\ call[t].pc = "done" /\ call[t].op = "Stop" /\ call[t].res = "ok" /\ call[t].found
       /\ call[u].pc = "stop_signal" /\ call[u].id = call[t].id
       /\ released[call[u].inst] = 1
       /\ semaphore = 0


\* the run loop of session i has returned and no Stop has signalled the session
EndedInternally(i) ==
    task[i].pc = "ended" /\ ~sess[i].ctxDone /\ ~sess[i].promptClosed

\* no call is under way and no goroutine of a session has a step to take:
\* only a new call changes the state
AtRest ==
    /\ \A t \in Callers : call[t].pc = "idle"
    /\ ~ENABLED (\E i \in Inst : RunSelect(i) \/ runCLI(i) \/ SubprocessExit(i))

\* C5: once the runtime is at rest, a session whose run loop has returned
\* with no Stop called on it is out of the live table, so that ListSessions
\* does not return it, and does not hold a slot.
C5_EndedSessionRemoved ==
    \A i \in Inst :
       (EndedInternally(i) /\ AtRest)
       => /\ \A id \in SessionIDs : sessions[id] # i
          /\ \A id \in Listed([RigName |-> << >>, Role |-> NoRole, Running |-> "nil"]) :
                sessions[id] # i
          /\ i \notin LiveSessions

\* C6: a session whose subprocess failed to launch, no Stop having signalled
\* it, is not in the live table and holds no slot.
C6_FailedStartLeavesNothing ==
    \A i \in Inst :
       (sess[i].cmd = "failed" /\ ~sess[i].ctxDone)
       => /\ \A id \in SessionIDs : sessions[id] # i
          /\ i \notin LiveSessions


\* C7: a Stop whose Load finds no session for its id returns nil at that
\* step and leaves the table, every session, its queues and goroutines, and
\* the number of held slots as they were.
C7_Step ==
    \A t \in Callers :
       (Begins(t, "Stop") /\ sessions[call'[t].id] = NoInst)
       => /\ call'[t].pc = "done" /\ call'[t].res = "ok" /\ ~call'[t].found
          /\ RuntimeUnchanged

C7_StopUnknownIsNoOp == [][C7_Step]_vars

\* C7 witness: a Stop of an id that is not in the table has returned nil
\* while another session is live and another call is under way.
C7_Witness ==
    \E t \in Callers :
       /\ call[t].pc = "done" /\ call[t].op = "Stop" /\ call[t].res = "ok"
       /\ ~call[t].found /\ sessions[call[t].id] = NoInst
       /\ Table # {} /\ semaphore > 0
       /\ \E u \in Callers : call[u].pc \notin {"idle", "done"}


\* C8: GetStatus of an id that is not in the live table returns, with no
\* error, a status for that id that is not running and whose health is
\* unknown, and leaves the runtime and every session as they were.
C8_Step ==
    \A t \in Callers :
       (Begins(t, "GetStatus") /\ sessions[call'[t].id] = NoInst)
       => /\ call'[t].pc = "done" /\ call'[t].res = "ok"
          /\ call'[t].ret.SessionID = call'[t].id
          /\ call'[t].ret.Running = FALSE
          /\ call'[t].ret.Health = "unknown"
          /\ RuntimeUnchanged /\ UNCHANGED nextInst

C8_StatusOfUnknown == [][C8_Step]_vars

\* C8 witness: GetStatus has answered for an id whose session was started
\* and stopped, while another session is live.
C8_Witness ==
    \E t \in Callers :
       /\ call[t].pc = "done" /\ call[t].op = "GetStatus" /\ ~call[t].found
       /\ call[t].ret.Health = "unknown"
       /\ \E i \in Inst : sess[i].SessionID = call[t].id /\ released[i] = 1
       /\ Table # {}

\* C9: SendPrompt, StreamResponses and CaptureOutput, called with an id that
\* is not in the live table, return the not-found error at their first step
\* and leave the runtime as it was: no session, no queue entry, no forwarding
\* goroutine, no slot taken.
C9_Step ==
    \A t \in Callers :
       \A op \in {"SendPrompt", "StreamResponses", "CaptureOutput"} :
          (Begins(t, op) /\ sessions[call'[t].id] = NoInst)
          => /\ call'[t].pc = "done" /\ call'[t].res = "errNotFound"
             /\ RuntimeUnchanged /\ UNCHANGED nextInst

C9_UnknownIdNotFound == [][C9_Step]_vars

\* C9 witness: one of the three has returned the not-found error for the id
\* of a session that was stopped, while a live session has a prompt queued
\* or a stream attached.
C9_Witness ==
    \E t \in Callers :
       /\ call[t].pc = "done" /\ call[t].res = "errNotFound"
       /\ call[t].op \in {"SendPrompt", "StreamResponses", "CaptureOutput"}
       /\ \E i \in Inst : sess[i].SessionID = call[t].id /\ released[i] = 1
       /\ \E j \in LiveSessions : Len(fwd) > 0 \/ sess[j].promptCh # << >>


\* C10: a Start called with options whose Role is empty does not succeed, and
\* no session with an empty Role is ever built or holds a slot.
C10_RoleRequired ==
    /\ \A t \in Callers :
          (call[t].pc = "done" /\ call[t].op = "Start" /\ call[t].opts.Role = NoRole)
          => call[t].res # "ok"
    /\ \A i \in Inst : sess[i].alloc => sess[i].Role # NoRole


\* the id the naming convention prescribes for a defined role
C11_Grammar(role, team, worker) ==
    CASE role = RoleMayor -> <<"h","q","-","m","a","y","o","r">>
      [] role = RoleDeacon -> <<"h","q","-","d","e","a","c","o","n">>
      [] role \in {RoleWitness, RoleRefinery} -> <<"g","t","-">> \o team \o <<"-">> \o role
      [] role = RolePolecat -> <<"g","t","-">> \o team \o <<"-">> \o worker
      [] role = RoleCrew -> <<"g","t","-">> \o team \o <<"-","c","r","e","w","-">> \o worker

\* C11: the id GenerateSessionID gives to options of a defined role is the one
\* the convention prescribes for their role, rig and worker (hq-mayor,
\* hq-deacon, gt-{team}-{role}, gt-{team}-{worker}, gt-{team}-crew-{worker}),
\* and two options that agree on role, rig and worker are given the same id
\* whatever their other fields are.
C11_IdIsFunctionOfIdentity ==
    /\ (gen.ida # NoID /\ gen.a.Role \in DefinedRoles)
          => gen.ida = C11_Grammar(gen.a.Role, gen.a.RigName, gen.a.WorkerName)
    /\ (gen.idb # NoID /\ gen.b.Role \in DefinedRoles)
          => gen.idb = C11_Grammar(gen.b.Role, gen.b.RigName, gen.b.WorkerName)
    /\ ( /\ gen.ida # NoID /\ gen.idb # NoID
         /\ gen.a.Role = gen.b.Role
         /\ gen.a.RigName = gen.b.RigName
         /\ gen.a.WorkerName = gen.b.WorkerName )
          => gen.ida = gen.idb

\* C11 witness: two crew options of the same rig and worker that differ in
\* their initial prompt have both been given the crew id of that worker.
C11_Witness ==
    /\ gen.a.Role = RoleCrew /\ gen.b.Role = RoleCrew
    /\ gen.a.RigName = gen.b.RigName /\ gen.a.WorkerName = gen.b.WorkerName
    /\ gen.a.InitialPrompt # gen.b.InitialPrompt
    /\ gen.ida = <<"g","t","-">> \o gen.a.RigName \o <<"-","c","r","e","w","-">> \o gen.a.WorkerName
    /\ gen.idb = gen.ida


\* the fields of the options that identify an agent of their role: the town
\* roles have no rig and no worker, the rig's singletons have no worker
C12_Identity(o) ==
    CASE o.Role \in {RoleMayor, RoleDeacon} -> <<o.Role>>
      [] o.Role \in {RoleWitness, RoleRefinery} -> <<o.Role, o.RigName>>
      [] OTHER -> <<o.Role, o.RigName, o.WorkerName>>

\* C12: two options of defined roles that identify different agents are given
\* different ids by GenerateSessionID.
C12_DistinctAgentsDistinctIds ==
    ( /\ gen.ida # NoID /\ gen.idb # NoID
      /\ gen.a.Role \in DefinedRoles /\ gen.b.Role \in DefinedRoles
      /\ C12_Identity(gen.a) # C12_Identity(gen.b) )
    => gen.ida # gen.idb


\* q is p with one more prompt at its end
C13_Appended(p, q) == Len(q) = Len(p) + 1 /\ SubSeq(q, 1, Len(p)) = p

\* the messages the handling of a prompt adds to the conversation
C13_HandlingMessages ==
    { [role |-> "assistant", text |-> "reply"], [role |-> "assistant", text |-> "tool_use"],
      [role |-> "user", text |-> "tool_result"] }

\* C13: the prompt queue of a session changes only by an accepted prompt
\* joining at its end or by the run loop taking its oldest prompt; the run
\* loop takes one only when it is handling none, and that prompt is the next
\* user turn of the conversation; while a prompt is being handled, with its
\* tool calls, no other prompt is taken and the conversation gains only
\* messages of that handling; and a step of one session's run loop leaves
\* every other session as it is.
C13_Step ==
    \A i \in Inst :
       LET q == sess[i].promptCh
           conv == sess[i].conversation
       IN /\ sess'[i].promptCh # q
                => \/ C13_Appended(q, sess'[i].promptCh) /\ task'[i] = task[i]
                   \/ /\ q # << >> /\ sess'[i].promptCh = Tail(q)
                      /\ task[i].pc = "loop" /\ task'[i].pc = "api"
                      /\ sess'[i].conversation = Append(conv, [role |-> "user", text |-> Head(q)])
                      /\ sess'[i].turnCount = sess[i].turnCount + 1
          /\ task[i].pc \in {"api", "tools"}
                => /\ sess'[i].promptCh = q \/ C13_Appended(q, sess'[i].promptCh)
                   /\ sess'[i].turnCount = sess[i].turnCount
                   /\ Len(sess'[i].conversation) >= Len(conv)
                   /\ SubSeq(sess'[i].conversation, 1, Len(conv)) = conv
                   /\ \A n \in (Len(conv) + 1)..Len(sess'[i].conversation) :
                         sess'[i].conversation[n] \in C13_HandlingMessages
          /\ sess'[i].conversation # conv => task'[i] # task[i] /\ task[i].pc # "none"
          /\ task'[i] # task[i] /\ task[i].pc # "none"
                => \A j \in Inst \ {i} : sess'[j] = sess[j] /\ task'[j] = task[j]

C13_PromptsInOrder == [][C13_Step]_vars

\* C13 witness: two callers sent their prompts to one session concurrently,
\* the second caller's was accepted first; it was handled first, through a
\* tool call to its reply, and the first caller's prompt is now in hand.
C13_Witness ==
    \E i \in Inst :
       /\ sess[i].conversation =
             << [role |-> "user", text |-> "q"], [role |-> "assistant", text |-> "tool_use"],
                [role |-> "user", text |-> "tool_result"], [role |-> "assistant", text |-> "reply"],
                [role |-> "user", text |-> "p"] >>
       /\ task[i].pc = "api"


\* session i's call of the model fails in this step
C14_ModelCallFails(i) ==
    /\ task[i].pc \in {"api", "tools"}
    /\ task'[i] # task[i]
    /\ sess[i].responseCh # << >> => sess'[i].responseCh # sess[i].responseCh
    /\ sess'[i].responseCh # << >>
    /\ sess'[i].responseCh[Len(sess'[i].responseCh)] = "error"

\* C14: when a call of the model fails while a session handles a prompt, the
\* error response joins the session's response queue and the session stays
\* as it was: running, its queues open, its slot held, the live table and
\* the held slots unchanged, its run loop back at the prompt queue.
C14_Step ==
    \A i \in Inst :
       C14_ModelCallFails(i)
       => /\ sess'[i].responseCh = Append(sess[i].responseCh, "error")
          /\ task'[i].pc = "loop"
          /\ sess'[i].Running /\ ~sess'[i].responseClosed /\ ~sess'[i].promptClosed
          /\ ~sess'[i].ctxDone
          /\ UNCHANGED <<sessions, semaphore, released>>
          /\ i \in LiveSessions'
          /\ sess'[i].promptCh = sess[i].promptCh

C14_ErrorKeepsSession == [][C14_Step]_vars

\* C14 witness: the first prompt of a session ended in an error response; the
\* session is live and running and has since taken a second prompt and
\* answered it.
C14_Witness ==
    \E i \in LiveSessions :
       /\ sess[i].responseCh = <<"error", "text", "complete">>
       /\ sess[i].turnCount = 2
       /\ sess[i].Running
       /\ sessions[sess[i].SessionID] = i
       /\ task[i].pc = "loop"


\* C20: a maximum-turn guard ends the handling of a prompt: once the model has
\* been called MaxModelCalls times for one prompt, no further tool round is
\* set up, whatever the stop reason of the last reply.
C20_TurnGuard ==
    \A i \in Inst : task[i].calls >= MaxModelCalls => task[i].pc # "tools"


\* C15: when a Stop without force returns from a session it found, the
\* session's id is not in the live table, ListSessions returns it under no
\* filter and GetStatus of the id reports it as not running; and an id that
\* is out of the table stays out until a Start stores a session under it.
C15_Step ==
    /\ \A t \in Callers :
          ( /\ call[t].pc = "stop_release" /\ call'[t].pc = "done"
            /\ call[t].op = "Stop" /\ ~call[t].force )
          => /\ call'[t].res = "ok"
             /\ sessions'[call[t].id] = NoInst
             /\ \A id \in SessionIDs : sessions'[id] # call[t].inst
             /\ \A f \in SessionFilters : call[t].id \notin Listed(f)'
             /\ ~StatusOf(call[t].id)'.Running
    /\ \A id \in SessionIDs :
          (sessions[id] = NoInst /\ sessions'[id] # NoInst)
          => \E t \in Callers : /\ call[t].pc = "start_store"
                                /\ GenerateSessionID(call[t].opts) = id
                                /\ call'[t].pc # "start_store"

C15_StoppedSessionGone == [][C15_Step]_vars

\* C15 witness: a session took a prompt and answered it, a Stop without force
\* has returned from it, and the session is in no listing and its status is
\* not running.
C15_Witness ==
    \E t \in Callers, i \in Inst :
       /\ call[t].pc = "done" /\ call[t].op = "Stop" /\ ~call[t].force
       /\ call[t].found /\ call[t].res = "ok"
       /\ sess[i].SessionID = call[t].id /\ released[i] = 1
       /\ sess[i].turnCount > 0 /\ sess[i].tokenCount > 0
       /\ \A f \in SessionFilters : call[t].id \notin Listed(f)
       /\ ~StatusOf(call[t].id).Running


\* a is the end of b
C19_IsSuffix(a, b) == Len(a) <= Len(b) /\ SubSeq(b, Len(b) - Len(a) + 1, Len(b)) = a

\* C19: of two streams of one session that are both being served, neither
\* cancelled nor closed, the older has been given every response the newer
\* has been given: when the session's response queue is empty and both
\* forwarders are waiting on it, what the newer stream has received is the end
\* of what the older one has received.
C19_EveryStreamComplete ==
    \A k, l \in DOMAIN fwd :
       ( /\ k < l /\ fwd[k].inst = fwd[l].inst
         /\ fwd[k].pc = "recv" /\ fwd[l].pc = "recv"
         /\ ~fwd[k].ctxDone /\ ~fwd[l].ctxDone
         /\ sess[fwd[k].inst].responseCh = << >> )
       => C19_IsSuffix(fwd[l].ch, fwd[k].ch)


\* the connections in wsConns[id]
C16_Registered == { wsConns.arr[n] : n \in 1..wsConns.len }

\* C16: whenever the streaming goroutine is between two broadcasts, every
\* connection that is registered and open has been written each message
\* broadcast since it was registered exactly once and in the order of the
\* stream, so that any two of them have been written the same messages from
\* the moment both were registered.
C16_AllGetEachOnce ==
    stream.pc = "recv"
    => \A c \in C16_Registered :
          conn[c].state = "open"
          => conn[c].got = [n \in 1..(stream.pos - conn[c].since) |-> conn[c].since + n]


\* C17: a connection is written only messages whose broadcast began after it
\* was registered.
C17_NothingFromBefore ==
    \A c \in Conns : \A n \in 1..Len(conn[c].got) : conn[c].got[n] > conn[c].since


\* C18: a broadcast is never held up at a connection whose peer does not read
\* while a connection that does read has yet to be written the message.
C18_SlowDoesNotBlock ==
    ( /\ stream.pc = "write"
      /\ conn[stream.target].state = "open" /\ conn[stream.target].slow )
    => \A n \in (stream.idx + 1)..Len(stream.view) :
          LET c == stream.view[n]
          IN ~(conn[c].state = "open" /\ ~conn[c].slow)


\* C21: in the stream of a session in direct-API mode, every tool_call
\* response of a prompt's tool loop (of the first reply and of every
\* continuation reply) is followed at once by the tool_result response of the
\* same call, before the loop goes on and before the prompt's complete
\* response.
C21_ToolCallThenResult ==
    \A i \in Inst :
       \A n \in 1..Len(sess[i].responseCh) :
          (/\ sess[i].responseCh[n] = "tool_call"
           /\ (n < Len(sess[i].responseCh) \/ task[i].pc = "loop"))
          => (/\ n < Len(sess[i].responseCh)
              /\ sess[i].responseCh[n + 1] = "tool_result")


\* the model calls of session object s that returned a reply (each one left
\* an assistant message in the conversation), and those that failed (each one
\* left an error response in the stream)
C22_Successful(s) ==
    Cardinality({n \in DOMAIN s.conversation : s.conversation[n].role = "assistant"})

C22_Failed(s) ==
    Cardinality({n \in DOMAIN s.responseCh : s.responseCh[n] = "error"})

\* C22: in direct-API mode, between prompts, GetStatus of a live session
\* reports as tokens the usage summed over all successful model calls of the
\* session, and as turns the number of model calls of the session, the
\* continuation calls of the tool loop included.
C22_CountersPerModelCall ==
    \A id \in SessionIDs :
       (sessions[id] # NoInst /\ task[sessions[id]].pc = "loop")
       => LET s == sess[sessions[id]]
          IN StatusOf(id).SDKInfo =
                <<ReplyUsage * C22_Successful(s), C22_Successful(s) + C22_Failed(s)>>


\* ------------------------------------------------------------ the tools
\* the runtime with no session and nobody calling it, the API server with no
\* connection
RuntimeAtRest ==
    /\ gen = NoGen
    /\ wsConns = NoConns
    /\ conn = [c \in Conns |-> NoConn]
    /\ stream = NoStream
    /\ cfgMax = 1
    /\ useCLI = FALSE
    /\ semaphore = 0
    /\ sessions = [id \in SessionIDs |-> NoInst]
    /\ sess = [i \in Inst |-> NoSession]
    /\ task = [i \in Inst |-> NoTask]
    /\ proc = [i \in Inst |-> NoProc]
    /\ reader = [i \in Inst |-> NoTask]
    /\ fwd = << >>
    /\ call = [t \in Callers |-> Idle]
    /\ nextInst = 1
    /\ nCalls = 0
    /\ released = [i \in Inst |-> 0]

runtimeVars == <<gen, gateway, cfgMax, useCLI, semaphore, sessions, sess, task, proc, reader,
                 fwd, call, nextInst, nCalls, released>>

\* A string built from pieces (fmt.Sprintf, err.Error()): the pieces that are
\* not empty, so that the empty string is << >> however it was built.
Text(pieces) == SelectSeq(pieces, LAMBDA x : x # "")

\* What a handler does when called: it returns (output, nil), or (nil, err)
\* with err.Error() the one piece of err. A nil error is << >>.
Handlers ==
    { [nil |-> FALSE, output |-> "hello", err |-> << >>],
      [nil |-> FALSE, output |-> NoOutput, err |-> <<"failed">>],
      [nil |-> FALSE, output |-> NoOutput, err |-> <<"">>] }

\* the tool calls a model reply can carry
ToolCalls == [ID : {"call1", "call2"}, Name : ToolNames \cup {"unknown_tool"}]

\* executeTool(ctx, call), tool being r.tools[call.Name] as read under the
\* lock: an unknown tool and a tool without handler are errors built from the
\* name; a handler's error is reported by its message; a handler's output is
\* the result.
executeTool(tool, c) ==
    IF ~tool.registered
    THEN [CallID |-> c.ID, Output |-> NoOutput, Error |-> Text(<<"unknown tool: ", c.Name>>)]
    ELSE IF tool.Handler.nil
    THEN [CallID |-> c.ID, Output |-> NoOutput,
          Error |-> Text(<<"tool ", c.Name, " has no handler">>)]
    ELSE IF tool.Handler.err # << >>
    THEN [CallID |-> c.ID, Output |-> NoOutput, Error |-> Text(tool.Handler.err)]
    ELSE [CallID |-> c.ID, Output |-> tool.Handler.output, Error |-> << >>]

\* RegisterTool(tool): r.tools[tool.Name] = tool
RegisterTool ==
    /\ \E n \in ToolNames, h \in Handlers \cup {NilHandler} :
          tools' = [tools EXCEPT ![n] = [registered |-> TRUE, Handler |-> h]]
    /\ UNCHANGED <<exec, registry, lookup, diff, ctor, resp, tmux, answer, runtimeVars>>

\* UnregisterTool(name): delete(r.tools, name)
UnregisterTool ==
    /\ \E n \in ToolNames : tools' = [tools EXCEPT ![n] = NoTool]
    /\ UNCHANGED <<exec, registry, lookup, diff, ctor, resp, tmux, answer, runtimeVars>>

\* a call of executeTool, as handlePrompt and handleToolResults make it for a
\* tool_use block of a reply; tool is r.tools[call.Name] with its ok
ExecuteTool ==
    /\ \E c \in ToolCalls :
          LET tool == IF c.Name \in DOMAIN tools THEN tools[c.Name] ELSE NoTool
          IN exec' = [made |-> TRUE, call |-> c, tool |-> tool,
                      result |-> executeTool(tool, c)]
    /\ UNCHANGED <<tools, registry, lookup, diff, ctor, resp, tmux, answer, runtimeVars>>

InitTool ==
    /\ RuntimeAtRest
    /\ UnitsAtRest("tools")
    /\ tools = [n \in ToolNames |-> NoTool]
    /\ exec = NoExec

SpecTool == InitTool /\ [][RegisterTool \/ UnregisterTool \/ ExecuteTool]_vars

\* C23: executeTool returns a ToolResult with the id of the call; for a tool
\* that is not registered, a tool registered without handler and a tool whose
\* handler returns an error, the result has a non-empty error and no output;
\* for a handler that succeeds it has the handler's output and an empty error.
C23_ToolResult ==
    exec.made =>
       /\ exec.result.CallID = exec.call.ID
       /\ IF exec.tool.registered /\ ~exec.tool.Handler.nil /\ exec.tool.Handler.err = << >>
          THEN /\ exec.result.Output = exec.tool.Handler.output
               /\ exec.result.Error = << >>
          ELSE /\ exec.result.Error # << >>
               /\ exec.result.Output = NoOutput


\* --------------------------------------------------------- the registry
\* a SetActive that takes any name
SetActiveUnchecked ==
    /\ \E n \in RuntimeNames :
          /\ registry' = [registry EXCEPT !.active = n]
          /\ lookup' = [op |-> "SetActive", name |-> n, rt |-> NoRuntime, err |-> FALSE]
    /\ UNCHANGED <<tools, exec, diff, ctor, resp, tmux, answer, runtimeVars>>

\* Register(name, rt): r.runtimes[name] = rt
Register ==
    /\ \E n \in RuntimeNames, rt \in {"mock1", "mock2"} :
          /\ registry' = [registry EXCEPT !.runtimes[n] = rt]
          /\ lookup' = [op |-> "Register", name |-> n, rt |-> rt, err |-> FALSE]
    /\ UNCHANGED <<tools, exec, diff, ctor, resp, tmux, answer, runtimeVars>>

\* Get(name): the runtime under name, or the error "runtime not found"
Get ==
    /\ \E n \in RuntimeNames :
          lookup' = IF registry.runtimes[n] = NoRuntime
                    THEN [op |-> "Get", name |-> n, rt |-> NoRuntime, err |-> TRUE]
                    ELSE [op |-> "Get", name |-> n, rt |-> registry.runtimes[n], err |-> FALSE]
    /\ UNCHANGED <<tools, exec, registry, diff, ctor, resp, tmux, answer, runtimeVars>>

\* SetActive(name): the error "runtime not found" if nothing is registered
\* under name, otherwise r.active = name
SetActive ==
    /\ \E n \in RuntimeNames :
          IF registry.runtimes[n] = NoRuntime
          THEN /\ lookup' = [op |-> "SetActive", name |-> n, rt |-> NoRuntime, err |-> TRUE]
               /\ registry' = registry
          ELSE /\ registry' = [registry EXCEPT !.active = n]
               /\ lookup' = [op |-> "SetActive", name |-> n, rt |-> NoRuntime, err |-> FALSE]
    /\ UNCHANGED <<tools, exec, diff, ctor, resp, tmux, answer, runtimeVars>>

\* CloseAll(): rt.Close() for every registered runtime, and the last error;
\* the runtimes stay registered
CloseAll ==
    /\ \E e \in {FALSE} \cup {TRUE : n \in {m \in RuntimeNames : registry.runtimes[m] # NoRuntime}} :
          lookup' = [op |-> "CloseAll", name |-> "", rt |-> NoRuntime, err |-> e]
    /\ UNCHANGED <<tools, exec, registry, diff, ctor, resp, tmux, answer, runtimeVars>>

\* Active(): r.runtimes[r.active], nil when nothing is registered under the
\* active name
Active == registry.runtimes[registry.active]

InitRegistry ==
    /\ RuntimeAtRest
    /\ UnitsAtRest("registry")
    /\ registry = NewRegistry
    /\ lookup = [op |-> "", name |-> "", rt |-> NoRuntime, err |-> FALSE]

SpecRegistry == InitRegistry /\ [][Register \/ Get \/ SetActive \/ CloseAll]_vars

\* what a call op on the registry does in a step: it is the call the step
\* leaves in lookup
C24_Calls(op) == lookup' # lookup /\ lookup'.op = op

\* C24: Register(name, rt) puts rt under name and changes nothing else; Get
\* changes nothing and returns what is under name, failing exactly when
\* nothing is; SetActive(name) fails exactly when nothing is registered under
\* name and then leaves the registry as it was, and when it succeeds
\* ActiveName() is name, Active() is the runtime registered under name and
\* the registrations are as before.
C24_Step ==
    /\ C24_Calls("Register")
       => registry' = [registry EXCEPT !.runtimes[lookup'.name] = lookup'.rt]
    /\ C24_Calls("Get")
       => /\ registry' = registry
          /\ lookup'.err = (registry.runtimes[lookup'.name] = NoRuntime)
          /\ lookup'.rt = registry.runtimes[lookup'.name]
    /\ C24_Calls("SetActive")
       => /\ lookup'.err = (registry.runtimes[lookup'.name] = NoRuntime)
          /\ lookup'.err => registry' = registry
          /\ ~lookup'.err
             => /\ registry'.active = lookup'.name
                /\ registry'.runtimes[registry'.active] = registry.runtimes[lookup'.name]
                /\ registry'.runtimes = registry.runtimes

C24_RegisteredNamesOnly == [][C24_Step]_vars

\* a SetActive of an unregistered name has failed after an earlier one had
\* moved the active name to a registered runtime other than the initial one
C24_Witness ==
    /\ lookup.op = "SetActive" /\ lookup.err
    /\ registry.active = "sdk"
    /\ registry.runtimes["sdk"] = "mock2"
    /\ registry.runtimes[lookup.name] = NoRuntime


\* ------------------------------------------------- extractNewContent
\* the contents of a pane: strings of at most MaxContent characters
Contents == UNION { [1..n -> {"a", "b"}] : n \in 0..MaxContent }

\* strings.HasPrefix(s, prefix)
HasPrefix(s, prefix) == Len(prefix) <= Len(s) /\ SubSeq(s, 1, Len(prefix)) = prefix

\* an extractNewContent that returns nothing when the content has changed
extractNewContentOrNothing(old, new) ==
    IF old = << >> THEN new
    ELSE IF HasPrefix(new, old) THEN SubSeq(new, Len(old) + 1, Len(new))
    ELSE << >>

\* extractNewContent(old, new): new if old is empty; new without its prefix
\* old (strings.TrimPrefix) if old is a prefix of new; otherwise new
extractNewContent(old, new) ==
    IF old = << >> THEN new
    ELSE IF HasPrefix(new, old) THEN SubSeq(new, Len(old) + 1, Len(new))
    ELSE new

\* the poll of StreamResponses compares the pane's content with the last one
ExtractNewContent ==
    /\ ~diff.done
    /\ diff' = [diff EXCEPT !.out = extractNewContent(diff.old, diff.new), !.done = TRUE]
    /\ UNCHANGED <<tools, exec, registry, lookup, ctor, resp, tmux, answer, runtimeVars>>

InitDiff ==
    /\ RuntimeAtRest
    /\ UnitsAtRest("diff")
    /\ \E old, new \in Contents :
          diff = [old |-> old, new |-> new, out |-> << >>, done |-> FALSE]

SpecDiff == InitDiff /\ [][ExtractNewContent]_vars

\* C25: extractNewContent(old, new) is the rest of new after old when new is
\* old followed by some rest (nothing when the two are equal, all of new when
\* old is empty), and all of new when new does not begin with old.
C25_SuffixOrAll ==
    diff.done =>
       IF \E rest \in Contents : diff.new = diff.old \o rest
       THEN diff.old \o diff.out = diff.new
       ELSE diff.out = diff.new

\* the function has been applied to a content that grew
C25_Witness ==
    /\ diff.done
    /\ diff.old = <<"a">>
    /\ diff.new = <<"a", "b", "a">>
    /\ diff.out = <<"b", "a">>


\* ------------------------------------------------------- NewSDKRuntime
\* a NewSDKRuntime that falls back on the key of the environment
NewSDKRuntimeFromEnv(cfg, env) ==
    [made |-> TRUE,
     useCLI |-> (cfg.APIKey = "" /\ env = ""),
     ceiling |-> IF cfg.MaxConcurrentSessions <= 0 THEN DefaultMaxConcurrent
                 ELSE cfg.MaxConcurrentSessions]

\* NewSDKRuntime(cfg) in a process whose environment has ANTHROPIC_API_KEY
\* set to env ("" when unset). A nil cfg is an empty configuration; the
\* semaphore gets cfg.MaxConcurrentSessions slots, 10 if that is not positive;
\* the runtime is in direct-API mode if cfg.APIKey is not empty and in
\* subprocess mode otherwise. The environment is not read.
NewSDKRuntime(cfg, env) ==
    [made |-> TRUE,
     useCLI |-> (cfg.APIKey = ""),
     ceiling |-> IF cfg.MaxConcurrentSessions <= 0 THEN DefaultMaxConcurrent
                 ELSE cfg.MaxConcurrentSessions]

\* the k-th construction
Construct(k) ==
    /\ ~ctor.rt[k].made
    /\ ctor' = [ctor EXCEPT !.rt[k] = NewSDKRuntime(ctor.cfg, ctor.env[k])]
    /\ UNCHANGED <<tools, exec, registry, lookup, diff, resp, tmux, answer, runtimeVars>>

\* one configuration, nil or with or without a key, and the environments of
\* two processes, each with or without a key
InitCtor ==
    /\ RuntimeAtRest
    /\ UnitsAtRest("ctor")
    /\ \E cfg \in {NilConfig} \cup [nil : {FALSE}, APIKey : {"", "test-key", "sk-ant"},
                                    MaxConcurrentSessions : {-1, 0, 5}],
          a, b \in {"", "sk-env"} :
          ctor = [cfg |-> cfg, env |-> <<a, b>>, rt |-> <<NoSDKRuntime, NoSDKRuntime>>]

SpecCtor == InitCtor /\ [][\E k \in {1, 2} : Construct(k)]_vars

Route(method, path) ==
    LET routes == { <<"POST", <<"sessions">>, "handleCreateSession">>,
                    <<"DELETE", <<"sessions", "{id}">>, "handleDeleteSession">>,
                    <<"GET", <<"sessions", "{id}">>, "handleGetSession">>,
                    <<"GET", <<"sessions">>, "handleListSessions">>,
                    <<"GET", <<"sessions", "{id}", "output">>, "handleCaptureOutput">>,
                    <<"GET", <<"sessions", "{id}", "ws">>, "handleWebSocket">>,
                    <<"GET", <<"health">>, "handleHealth">> }
        Match(r) == /\ Len(r[2]) = Len(path)
                    /\ \A n \in 1..Len(path) : r[2][n] = "{id}" \/ r[2][n] = path[n]
    IN IF \E r \in routes : r[1] = method /\ Match(r)
       THEN (CHOOSE r \in routes : r[1] = method /\ Match(r))[3]
       ELSE IF \E r \in routes : Match(r) THEN "MethodNotAllowed"
       ELSE "NotFound"

\* POST /sessions. handleCreateSession answers a body that does not decode
\* with 400, and otherwise calls Start with the options of the body.
handleCreateSession(t) ==
    /\ Route("POST", <<"sessions">>) = "handleCreateSession"
    /\ \/ /\ NoneDone
          /\ call[t].pc = "idle"
          /\ resp' = [resp EXCEPT ![t] = [route |-> "POST /sessions", res |-> "decode",
                                          status |-> 400, sends |-> 0, body |-> << >>]]
          /\ UNCHANGED <<tools, exec, registry, lookup, diff, ctor, tmux, answer, runtimeVars>>
       \/ Start(t, StartOptionsSet)

\* GET /sessions/{id}: handleGetSession calls GetStatus
handleGetSession(t) ==
    /\ \A id \in SessionIDs : Route("GET", <<"sessions", id>>) = "handleGetSession"
    /\ GetStatus(t)

\* POST /sessions/{id}/prompt, the request of sendPrompt in the example
\* client: the answer of the mux when no handler is registered for it. No
\* call of SendPrompt is made.
ServeMux(t) ==
    /\ NoneDone
    /\ call[t].pc = "idle"
    /\ \E id \in SessionIDs :
          LET h == Route("POST", <<"sessions", id, "prompt">>)
          IN /\ h \in {"NotFound", "MethodNotAllowed"}
             /\ resp' = [resp EXCEPT ![t] =
                           [route |-> "POST /sessions/{id}/prompt", res |-> h,
                            status |-> IF h = "NotFound" THEN 404 ELSE 405,
                            sends |-> 0, body |-> << >>]]
    /\ UNCHANGED <<tools, exec, registry, lookup, diff, ctor, tmux, answer, runtimeVars>>

\* The end of a handler whose call of the runtime has returned. An error of
\* Start, Stop or GetStatus is written with StatusInternalServerError; a
\* started session is answered 201 and a status 200. (A panic of the
\* handler's goroutine closes the connection without an answer.)
Respond(t) ==
    /\ call[t].pc = "done"
    /\ resp' = [resp EXCEPT ![t] =
                  [route |-> CASE call[t].op = "Start" -> "POST /sessions"
                               [] call[t].op = "GetStatus" -> "GET /sessions/{id}"
                               [] OTHER -> call[t].op,
                   res |-> call[t].res,
                   status |-> CASE call[t].res = "panic" -> 0
                                [] call[t].res # "ok" -> 500
                                [] call[t].op = "Start" -> 201
                                [] OTHER -> 200,
                   sends |-> 0,
                   body |-> call[t].ret]]
    /\ call' = [call EXCEPT ![t] = Idle]
    /\ UNCHANGED <<gen, gateway, cfgMax, useCLI, semaphore, sessions, sess, task, proc, reader,
                   fwd, nextInst, nCalls, released>>
    /\ UNCHANGED <<tools, exec, registry, lookup, diff, ctor, tmux, answer>>

SpecHTTP ==
    Init /\ [][\E t \in Callers : \/ handleCreateSession(t)
                                  \/ handleGetSession(t)
                                  \/ ServeMux(t)
                                  \/ Respond(t)]_vars

\* C27: the answer to POST /sessions is 400 for a body that does not decode,
\* 409 when the session's id is already live, 201 for a started session and
\* 500 for the other failures of Start.
C27_StatusPerFailure ==
    \A t \in Callers :
       resp[t].route = "POST /sessions"
       => resp[t].status = CASE resp[t].res = "decode" -> 400
                             [] resp[t].res = "errExists" -> 409
                             [] resp[t].res = "ok" -> 201
                             [] OTHER -> 500

\* C28: a request POST /sessions/{id}/prompt is served by a handler: it is
\* not answered by the mux as not found or not allowed, and SendPrompt has
\* been called once for it.
C28_PromptRouteServed ==
    \A t \in Callers :
       resp[t].route = "POST /sessions/{id}/prompt"
       => /\ resp[t].status \notin {404, 405}
          /\ resp[t].sends = 1


\* ------------------------------------------------------ the TmuxRuntime
\* the names of the sessions tmux can have, and one it never has
TmuxIDs == { GenerateSessionID(o) : o \in TmuxOptionsSet } \cup {Nonexistent}

\* r.tmux.HasSession(name), a capability of the terminal-multiplexer driver:
\* whether tmux has the session, or an error when tmux cannot be asked
HasSession(name) ==
    {IF name \in tmux.live THEN "found" ELSE "absent", "unavailable"}

\* ListSessions, for a session of tmux that is not in r.sessions: "hq-<role>"
\* gives the role; "gt-<rig>-<worker>" is split at the first "-" after the
\* prefix (strings.SplitN(..., "-", 2)) into rig and worker; the role of a
\* "gt-" name is left empty.
ParseSessionName(name) ==
    LET rest == SubSeq(name, 4, Len(name))
        dashes == {n \in 1..Len(rest) : rest[n] = "-"}
        first == CHOOSE n \in dashes : \A m \in dashes : n <= m
        parsed ==
           IF HasPrefix(name, <<"h", "q", "-">>)
           THEN [Role |-> rest, RigName |-> << >>, WorkerName |-> << >>]
           ELSE IF ~HasPrefix(name, <<"g", "t", "-">>)
           THEN [Role |-> NoRole, RigName |-> << >>, WorkerName |-> << >>]
           ELSE IF dashes = {}
           THEN [Role |-> NoRole, RigName |-> rest, WorkerName |-> << >>]
           ELSE [Role |-> NoRole, RigName |-> SubSeq(rest, 1, first - 1),
                 WorkerName |-> SubSeq(rest, first + 1, Len(rest))]
    IN [stored |-> FALSE, SessionID |-> name, Role |-> parsed.Role,
        RigName |-> parsed.RigName, WorkerName |-> parsed.WorkerName, Running |-> TRUE]

\* a Start that leaves the session it created when the command cannot be sent
SendKeysFailureLeaves(live, id) == live

\* if err := r.tmux.SendKeys(sessionID, cmd); err != nil
\* { _ = r.tmux.KillSession(sessionID); return nil, ... }: what tmux has after
\* the session is killed
SendKeysFailure(live, id) == live \ {id}

\* TmuxRuntime.Start: an error if tmux has the session (an error of
\* HasSession is ignored, and Start goes on as if tmux had no such session);
\* r.tmux.NewSession creates the session, or fails, as it does for a name
\* tmux has; r.tmux.SendKeys sends the startup command, and when it fails the
\* session is killed; otherwise the session is stored in r.sessions.
TmuxStart ==
    /\ \E opts \in TmuxOptionsSet, created \in BOOLEAN, sent \in BOOLEAN :
          LET id == GenerateSessionID(opts)
              failed == [NoAnswer EXCEPT !.op = "Start", !.id = id, !.err = TRUE]
          IN \E h \in HasSession(id) :
                IF h = "found"
                THEN tmux' = tmux /\ answer' = failed
                ELSE IF ~created \/ id \in tmux.live
                THEN tmux' = tmux /\ answer' = failed
                ELSE IF ~sent
                THEN /\ tmux' = [tmux EXCEPT !.live = SendKeysFailure(@ \cup {id}, id)]
                     /\ answer' = failed
                ELSE /\ tmux' = [live |-> tmux.live \cup {id},
                                 tracked |-> [tmux.tracked EXCEPT ![id] =
                                    [stored |-> TRUE, SessionID |-> id, Role |-> opts.Role,
                                     RigName |-> opts.RigName, WorkerName |-> opts.WorkerName,
                                     Running |-> TRUE]]]
                     /\ answer' = [NoAnswer EXCEPT !.op = "Start", !.id = id]
    /\ UNCHANGED <<tools, exec, registry, lookup, diff, ctor, resp, runtimeVars>>

\* a session that is in tmux but not in r.sessions: it was started by a
\* TmuxRuntime of another process, or of this one before a restart
SessionAppears ==
    /\ \E opts \in TmuxOptionsSet :
          /\ GenerateSessionID(opts) \notin tmux.live
          /\ tmux' = [tmux EXCEPT !.live = @ \cup {GenerateSessionID(opts)}]
    /\ UNCHANGED <<tools, exec, registry, lookup, diff, ctor, resp, answer, runtimeVars>>

\* GET /sessions/{id} in front of a TmuxRuntime. GetStatus returns the error
\* of HasSession, which handleGetSession answers with 500; otherwise the
\* status of the stored session, or of one made up for the id, with Running
\* as tmux has it, answered with 200.
TmuxGetStatus ==
    /\ \E id \in TmuxIDs : \E h \in HasSession(id) :
          answer' = IF h = "unavailable"
                    THEN [NoAnswer EXCEPT !.op = "GET /sessions/{id}", !.id = id,
                                          !.status = 500, !.err = TRUE]
                    ELSE [NoAnswer EXCEPT !.op = "GET /sessions/{id}", !.id = id,
                                          !.status = 200, !.running = (h = "found")]
    /\ UNCHANGED <<tools, exec, registry, lookup, diff, ctor, resp, tmux, runtimeVars>>

\* TmuxRuntime.ListSessions(filter): the error of tmux.ListSessions, or for
\* every session of tmux the stored session, or the one parsed from the name
\* when none is stored, Running, if it passes the filter (AgentID not set)
TmuxListSessions ==
    /\ \E filter \in [RigName : {<< >>, <<"a">>}, Role : {NoRole, RolePolecat, RoleMayor},
                      Running : {"nil", "true", "false"}],
          o \in {"listed", "unavailable"} :
          LET session(name) == IF tmux.tracked[name].stored
                               THEN [tmux.tracked[name] EXCEPT !.Running = TRUE]
                               ELSE ParseSessionName(name)
              passes(s) == /\ filter.RigName # << >> => s.RigName = filter.RigName
                           /\ filter.Role # NoRole => s.Role = filter.Role
                           /\ filter.Running # "nil" => s.Running = (filter.Running = "true")
          IN answer' = IF o = "unavailable"
                       THEN [NoAnswer EXCEPT !.op = "ListSessions", !.err = TRUE]
                       ELSE [NoAnswer EXCEPT
                               !.op = "ListSessions",
                               !.filter = [RigName |-> filter.RigName, Role |-> filter.Role],
                               !.sessions = {s \in {session(n) : n \in tmux.live} : passes(s)}]
    /\ UNCHANGED <<tools, exec, registry, lookup, diff, ctor, resp, tmux, runtimeVars>>

InitTmux ==
    /\ RuntimeAtRest
    /\ UnitsAtRest("tmux")
    /\ tmux = [live |-> {}, tracked |-> [n \in TmuxIDs |-> NoTmuxSession]]
    /\ answer = NoAnswer

SpecTmux ==
    InitTmux /\ [][TmuxStart \/ SessionAppears \/ TmuxGetStatus \/ TmuxListSessions]_vars

\* C29: GET /sessions/{id} for an id that tmux does not have and the runtime
\* has not stored is answered with a success status and a status whose
\* running field is false.
C29_UnknownIdAnswered ==
    (/\ answer.op = "GET /sessions/{id}"
     /\ answer.id \notin tmux.live
     /\ ~tmux.tracked[answer.id].stored)
    => (answer.status = 200 /\ ~answer.running)

\* C30: in a list ListSessions returns, a session that is not stored and
\* whose id is GenerateSessionID of some role, team and worker carries that
\* role, team and worker; and every session of the list has the team and
\* the role of the filter, where the filter has one.
C30_RecoveredIdentity ==
    (answer.op = "ListSessions" /\ ~answer.err)
    => /\ \A s \in answer.sessions :
             ~tmux.tracked[s.SessionID].stored
             => \A o \in TmuxOptionsSet :
                   GenerateSessionID(o) = s.SessionID
                   => <<s.Role, s.RigName, s.WorkerName>> = <<o.Role, o.RigName, o.WorkerName>>
       /\ \A s \in answer.sessions :
             /\ answer.filter.RigName # << >> => s.RigName = answer.filter.RigName
             /\ answer.filter.Role # NoRole => s.Role = answer.filter.Role


\* ---------------------------------------------------------------------------
\* C31: a Stop without force is graceful: its signalling step closes the
\* prompt queue and the subprocess's input, and it does not cancel the
\* session context (which would end in-flight work and, through
\* exec.CommandContext, kill the subprocess); only a forced Stop cancels.
C31_Step ==
    \A t \in Callers :
        (/\ call[t].pc = "stop_signal"
         /\ ~call[t].force
         /\ call'[t].pc = "stop_kill")
        => /\ sess'[call[t].inst].promptClosed
           /\ sess'[call[t].inst].ctxDone = sess[call[t].inst].ctxDone

C31_GracefulStop == [][C31_Step]_vars


\* C32: a TmuxRuntime.Start that fails leaves no trace: the sessions tmux has
\* and the table of tracked sessions are what they were before the call,
\* whether the id was taken, the session could not be created, or the startup
\* command could not be sent (the session created by the call is killed).
C32_Step == (TmuxStart /\ answer'.err) => tmux' = tmux

C33_ConsistentFanOut ==
    /\ \A c \in Conns : \A n, m \in 1..Len(conn[c].got) :
          conn[c].got[n] = conn[c].got[m] => n = m
    /\ stream.pc = "recv"
       => \A c \in C16_Registered :
             (conn[c].state = "open" /\ conn[c].since < stream.pos)
             => \E n \in 1..Len(conn[c].got) : conn[c].got[n] = stream.pos
    /\ C16_Registered = { c \in Conns : conn[c].state = "open" }
    /\ wsConns.len = Cardinality(C16_Registered)


\* C34: of the Start calls for one session id that run concurrently at most
\* one succeeds: no two sessions with the same id are running, neither of
\* them stopped, each with a run loop of its own; and when no call is in
\* progress the admission slots held are as many as the entries of the table.
C34_OneSessionPerId ==
    /\ \A i, j \in Inst :
          (/\ i # j
           /\ sess[i].alloc /\ sess[j].alloc
           /\ sess[i].SessionID = sess[j].SessionID
           /\ ~sess[i].ctxDone /\ ~sess[j].ctxDone)
          => (task[i].pc = "ended" \/ task[j].pc = "ended")
    /\ (\A t \in Callers : call[t].pc = "idle")
       => semaphore = Cardinality({ id \in SessionIDs : sessions[id] # NoInst })


\* ---------------------------------------------------------------------------
\* Prompts against stops: one caller starts and stops sessions while another
\* sends them prompts, beside the goroutines of the sessions.
NextSend ==
    \/ Start(1, StartOptionsSet)
    \/ Stop(1)
    \/ SendPrompt(2)
    \/ \E t \in Callers : Return(t)
    \/ \E i \in Inst :
          \/ run(i)
          \/ runCLI(i)
          \/ Subprocess(i)
          \/ readCLIOutput(i)

SpecSend == Init /\ [][NextSend]_vars

\* C35: a SendPrompt that runs beside a Stop of the session never sends on the
\* prompt queue after it was closed: it returns success or an error, and
\* does not panic.
C35_SendNeverPanics ==
    \A t \in Callers : call[t].op = "SendPrompt" => call[t].res # "panic"


\* C36: in subprocess mode the output reader has stopped publishing before
\* the run loop closes the response queue: the reader never sends a response
\* on the queue after it was closed.
C36_NoPublishAfterClose ==
    \A i \in Inst : reader[i].pc # "panic"


\* the terminal responses among the responses r
C37_Terminal(r) == SelectSeq(r, LAMBDA x : x \in {"complete", "error"})

\* C37: in direct-API mode every prompt taken from the prompt queue ends with
\* exactly one terminal response, complete or error: whenever the run loop
\* is between prompts, the session has published as many terminal responses
\* as it has taken prompts.
C37_OneTerminalPerPrompt ==
    \A i \in Inst :
        (sess[i].alloc /\ task[i].pc = "loop")
        => Len(C37_Terminal(sess[i].responseCh)) = sess[i].turnCount


\* ---------------------------------------------------------------------------
\* A session nobody listens to, in direct-API mode. The session gt-a-x has
\* taken k prompts, the model answered each with a text reply, and no
\* consumer has taken a response from the response queue, which is two
\* responses, or four, short of full. A caller sends it further prompts and
\* stops it; session.cmd is nil in this mode, so Stop never waits for a
\* subprocess.
Backlog(opts, k) ==
    [NewSession(opts) EXCEPT
        !.responseCh = [n \in 1..(2 * k) |-> IF n % 2 = 1 THEN "text" ELSE "complete"],
        !.turnCount = k,
        !.tokenCount = k * ReplyUsage,
        !.conversation = [n \in 1..(2 * k) |->
                             IF n % 2 = 1 THEN [role |-> "user", text |-> "p"]
                             ELSE [role |-> "assistant", text |-> "reply"]]]

InitBacklog ==
    /\ gen = NoGen
    /\ UnitsAtRest("")
    /\ wsConns = NoConns
    /\ conn = [c \in Conns |-> NoConn]
    /\ stream = NoStream
    /\ cfgMax = 1
    /\ useCLI = FALSE
    /\ semaphore = 1
    /\ sessions = [id \in SessionIDs |-> IF id = GatewayID THEN 1 ELSE NoInst]
    /\ \E opts \in GatewayOptionsSet, short \in {1, 2} :
          sess = [i \in Inst |->
                    IF i = 1 THEN Backlog(opts, ResponseQueueDepth \div 2 - short)
                    ELSE NoSession]
    /\ task = [i \in Inst |-> IF i = 1 THEN [pc |-> "loop", calls |-> 0, asked |-> 0, invoked |-> 0] ELSE NoTask]
    /\ proc = [i \in Inst |-> NoProc]
    /\ reader = [i \in Inst |-> NoTask]
    /\ fwd = << >>
    /\ call = [t \in Callers |-> Idle]
    /\ nextInst = 2
    /\ nCalls = 0
    /\ released = [i \in Inst |-> 0]

StopBacklog ==
    \/ \E id \in SessionIDs, force \in BOOLEAN : StopLoad(1, id, force)
    \/ StopSignal(1)
    \/ StopKill(1)
    \/ StopDelete(1)
    \/ StopRelease(1)

NextBacklog ==
    \/ SendPrompt(1)
    \/ StopBacklog
    \/ Return(1)
    \/ \E i \in Inst : run(i)

\* The goroutines of the caller and of the sessions are scheduled: a call
\* that has begun goes on, and a session's goroutine that can take a step
\* takes it. The steps of a goroutine wait here for a finished call to
\* return, which is why its fairness is the strong one.
SpecBacklog ==
    /\ InitBacklog
    /\ [][NextBacklog]_vars
    /\ WF_vars(SendPromptSelect(1) \/ StopSignal(1) \/ StopKill(1) \/ StopDelete(1)
                   \/ StopRelease(1) \/ Return(1))
    /\ SF_vars(\E i \in Inst : run(i))

\* C38: after Stop has signalled a session, the session's task eventually
\* exits and closes the response queue, even when the queue is full and
\* nobody takes a response from it.
C38_StoppedTaskExits ==
    \A i \in Inst : (sess[i].alloc /\ sess[i].ctxDone) ~> sess[i].responseClosed


\* C39: in direct-API mode each tool_use block the model sends causes the
\* registered handler to be invoked exactly once: when the handling of a
\* prompt is over, the handler has been invoked as many times as the model
\* has sent tool_use blocks for the prompt.
C39_OneInvocationPerBlock ==
    \A i \in Inst : task[i].pc = "loop" => task[i].invoked = task[i].asked


\* C40: in every state of a Registry, from its construction on, the active
\* name is a registered name, and Active() returns a registered
\* implementation, never nil.
C40_ActiveIsRegistered == Active # NoRuntime

====
